---- MODULE Spec2Model ----
(***************************************************************************)
(* A model of fraggler's calibration pipeline:                             *)
(*   FsaFile             (utils/fsa_file.py)                               *)
(*   PeakLadderAssigner  (ladder_fitting/peak_ladder_assigner.py)          *)
(*   FitLadderModel      (ladder_fitting/fit_ladder_model.py)              *)
(*   PeakFinder          (utils/peak_finder.py)                            *)
(*   PeakAreaDeMultiplex (applications/peak_area_multiplex.py)             *)
(*   the callers         (utils/fraggler_object.py, cli.py,                *)
(*                        functions/generate_peak_table.py)                *)
(* Each component has specifications of its own: SpecFsa; SpecPeaks and    *)
(* SpecAssigner; SpecFit; SpecValidation, SpecFinder and SpecDistance;     *)
(* SpecQuotient, SpecCalls, SpecAssays and SpecWindows; SpecBatch.  The    *)
(* variables of the other components keep their initial values.            *)
(* Exceptions are modelled by err, which holds the name of the exception   *)
(* class that left the component.                                          *)
(***************************************************************************)
EXTENDS Integers, Sequences, FiniteSets, TLC

VARIABLES
    pc,                         \* position inside the component that runs
    err,                        \* "none", or the class of the raised exception
    \* ---- PeakLadderAssigner
    peaks,                      \* get_peaks(): kept peak time indices, ascending
    max_ladder_trace_distance,  \* fsa_file.max_ladder_trace_distance
    nx_trivial_path,            \* networkx build: all_simple_paths(G, s, s) yields [s]
    graph,                      \* generate_graph(): set of edges <<a, b>>
    combinations,               \* list(generate_combinations()): sequence of windows
    best_combination,           \* get_best_fit(): the returned window
    \* ---- FitLadderModel
    ladder,                     \* fsa_file.ladder
    n_knots,                    \* self.n_knots
    model,                      \* self.model: the fitted pipeline
    mse_r2,                     \* (self.mse, self.r2)
    attempt,                    \* the loop index `_` of generate_adjusted_trace_df
    adjusted_baisepair_df,      \* self.adjusted_baisepair_df
    raw_data,                   \* PeakFinder.raw_data (downstream consumer)
    \* ---- PeakFinder / PeakAreaDeMultiplex
    cls,                        \* the class under construction
    custom_peaks,               \* self.custom_peaks (after fillna(0))
    detected,                   \* scipy's find_peaks on peaks_dataframe
    min_ratio,                  \* self.min_ratio, in percent
    distance_between_assays,    \* self.distance_between_assays
    peak_information,           \* self.peak_information
    peaks_index,                \* self.peaks_index
    found_peaks,                \* self.found_peaks: the method, or the flag
    number_of_assays,           \* self.number_of_assays
    steps,                      \* the methods called so far, in order
    \* ---- PeakAreaDeMultiplex: quantification
    trace_area,                 \* the amplitude lmfit finds around each peak index
    cutoff,                     \* self.cutoff
    divided_peaks,              \* self.divided_peaks
    fit_df,                     \* self.fit_df
    fit_params,                 \* self.fit_params
    fit_report,                 \* self.fit_report
    quotient,                   \* self.quotient
    call,                       \* the last method call on the constructed object
    r_squared,                  \* the R-squared line of lmfit's fit reports
    assay_peak_area_df,         \* self.assay_peak_area_df
    assays_dfs,                 \* assays_dataframe: dfs, the frames collected so far
    current,                    \* PeakAreaDeMultiplexIterator.current
    \* ---- PeakLadderAssigner.get_peaks
    peaks_obj,                  \* scipy's find_peaks on the size standard
    \* ---- PeakAreaDeMultiplex: the data windows of the peaks
    trace_length,               \* the number of rows of self.peaks_dataframe
    peak_widths,                \* self.peak_widths: peak_start and peak_end per peak
    peak_windows,               \* divide_peaks: the row positions of every window
    \* ---- FsaFile
    fsa_args,                   \* the arguments of FsaFile(...)
    fsa_file,                   \* the attributes of the FsaFile object
    message,                    \* str() of the raised exception
    \* ---- area_report / peak_report / generate_peak_table
    batch,                      \* the function that runs, its arguments, the files
    file_index,                 \* the number of files the loop is through with
    fsa,                        \* the local variable fsa: 0 while unbound
    fraggler_object,            \* what make_fraggler_peak / _area gave the loop
    failed_files,               \* failed_files
    no_peaks_files,             \* no_peaks
    peak_dfs,                   \* peak_dfs: the files whose frame was appended
    printed                     \* the file names after "FAILED: " on stdout

vars == <<pc, err, peaks, max_ladder_trace_distance, nx_trivial_path, graph,
          combinations, best_combination, ladder, n_knots, model, mse_r2,
          attempt, adjusted_baisepair_df, raw_data, cls, custom_peaks, detected,
          min_ratio, distance_between_assays, peak_information, peaks_index,
          found_peaks, number_of_assays, steps, trace_area, cutoff,
          divided_peaks, fit_df, fit_params, fit_report, quotient, call,
          r_squared, assay_peak_area_df, assays_dfs, current, peaks_obj,
          trace_length, peak_widths, peak_windows, fsa_args, fsa_file, message,
          batch, file_index, fsa, fraggler_object, failed_files, no_peaks_files,
          peak_dfs, printed>>

assignerVars == <<peaks, max_ladder_trace_distance, nx_trivial_path, graph,
                  combinations, best_combination>>
fitVars == <<ladder, n_knots, model, mse_r2, attempt, adjusted_baisepair_df,
             raw_data>>
finderInputs == <<cls, custom_peaks, detected, min_ratio, distance_between_assays>>
finderVars == <<cls, custom_peaks, detected, min_ratio, distance_between_assays,
                peak_information, peaks_index, found_peaks, number_of_assays, steps>>
quantInputs == <<trace_area, cutoff>>
fitResults == <<fit_df, fit_params, fit_report>>
quantVars == <<trace_area, cutoff, divided_peaks, fit_df, fit_params, fit_report,
               quotient, call>>
assayVars == <<r_squared, assay_peak_area_df, assays_dfs, current>>
\* the variables of the callers and of the steps around the four components
windowVars == <<trace_length, peak_widths, peak_windows>>
fsaVars == <<fsa_args, fsa_file, message>>
loopVars == <<file_index, fsa, fraggler_object, failed_files, no_peaks_files, peak_dfs,
              printed>>
batchVars == <<batch, loopVars>>
pipelineVars == <<assayVars, peaks_obj, windowVars, fsaVars, batchVars>>

\* Attributes that were never set: no sequence, no fitted model, no frame.
\* (A data frame can have zero rows, so "no frame" is a frame with a row no
\* trace has.)
None == <<>>

NoModel == [degree |-> 0, n_knots |-> 0, predict |-> <<>>]

NoFrame == <<[time |-> -1, basepairs |-> -1]>>

\* custom_peaks = None
NoTable == [given |-> FALSE, columns |-> {}, rows |-> <<>>]

\* peak_information / peaks_index before find_peaks has assigned them
NoPeakInformation ==
    <<[peaks_index |-> -1, basepairs |-> -1, peaks |-> -1, assay |-> "", peak_name |-> -1]>>

NoPeaksIndex == <<-1>>

\* cutoff = None
NoCutoff == [set |-> FALSE, value |-> 0]

\* attributes of PeakAreaDeMultiplex that were never assigned
NoDividedPeaks == << <<[peaks_index |-> -1, basepairs |-> <<>>]>> >>

NoFitDf == <<[peaks_index |-> -1, basepairs |-> <<>>, fitted |-> -1, model |-> ""]>>

NoFitParams == <<[amplitude |-> -1]>>

NoFitReport == <<"">>

NoQuotient == [num |-> 0, den |-> 0]

\* no method was called yet
NoCall == [method |-> "", peak_finding_model |-> "", assay_number |-> 0, fitted |-> 0]

\* the quantification attributes before anything assigned them
QuantUnset ==
    /\ divided_peaks = NoDividedPeaks /\ fit_df = NoFitDf /\ fit_params = NoFitParams
    /\ fit_report = NoFitReport /\ quotient = NoQuotient /\ call = NoCall

QuantIdle == trace_area = <<>> /\ cutoff = NoCutoff /\ QuantUnset

\* an R-squared value as lmfit prints it: sign, digit before the point, and
\* the first three decimals
RSquaredFits == [sign |-> 1, units |-> 0, decimals |-> 995]

\* self.assay_peak_area_df before peak_position_area_dataframe assigns it
NoAssayPeakAreaDf ==
    <<[peak_name |-> -1, peaks_index |-> -1, area |-> -1, quotient |-> NoQuotient,
       peak_number |-> -1, assay_number |-> -1]>>

AssayUnset == assay_peak_area_df = NoAssayPeakAreaDf /\ assays_dfs = <<>> /\ current = 0

AssayIdle == r_squared = RSquaredFits /\ AssayUnset

\* nothing outside the four components runs
\* get_peaks has no result of find_peaks to work on
PeaksIdle == peaks_obj = <<>>

\* no peak widths were measured
WindowIdle == trace_length = 0 /\ peak_widths = <<>> /\ peak_windows = <<>>

\* an argument the caller left out (None)
NotGiven == [given |-> FALSE, value |-> 0]

NoChannel == [given |-> FALSE, value |-> ""]

NoFsaArgs ==
    [file |-> "", ladder |-> "", size_standard_channel |-> NoChannel,
     min_interpeak_distance |-> NotGiven, min_height |-> NotGiven,
     max_ladder_trace_distance |-> NotGiven]

\* the attributes of an FsaFile before __init__ assigns them
NoFsaFile ==
    [ladder |-> "", size_standard_channel |-> "", min_interpeak_distance |-> -1,
     min_height |-> -1, max_ladder_trace_distance |-> -1, max_peak_count |-> -1]

\* no FsaFile is constructed
FsaIdle == fsa_args = NoFsaArgs /\ fsa_file = NoFsaFile /\ message = ""

NoBatch == [runner |-> "", ladder |-> "", custom_peaks |-> "", files |-> <<>>]

\* make_fraggler_peak / make_fraggler_area not called
NoObject == [returned |-> "", value |-> 0, raised |-> "none", logged |-> "none"]

\* the loop over the files before its first round
LoopStart ==
    /\ file_index = 0
    /\ fsa = 0
    /\ fraggler_object = NoObject
    /\ failed_files = <<>>
    /\ no_peaks_files = <<>>
    /\ peak_dfs = <<>>
    /\ printed = <<>>

\* no batch runs
BatchIdle == batch = NoBatch /\ LoopStart

PipelineIdle == AssayIdle /\ PeaksIdle /\ WindowIdle /\ FsaIdle /\ BatchIdle

\* the state of a PeakFinder that does not exist yet
FinderIdle ==
    /\ cls = "PeakFinder" /\ custom_peaks = NoTable /\ detected = <<>>
    /\ min_ratio = 0 /\ distance_between_assays = 1
    /\ peak_information = NoPeakInformation /\ peaks_index = NoPeaksIndex
    /\ found_peaks = "method" /\ number_of_assays = -1 /\ steps = <<>>
    /\ QuantIdle

\* the state of an assigner and a calibration model no specification runs
AssignerIdle ==
    /\ peaks = <<>> /\ max_ladder_trace_distance = 1 /\ nx_trivial_path = FALSE
    /\ graph = {} /\ combinations = <<>> /\ best_combination = None

FitIdle ==
    /\ ladder = "LIZ" /\ n_knots = 0 /\ model = NoModel /\ mse_r2 = None
    /\ attempt = 0 /\ adjusted_baisepair_df = NoFrame /\ raw_data = NoFrame

(***************************************************************************)
(* Bounds of the model.                                                    *)
(***************************************************************************)
\* time indices of the size-standard channel are 1..MaxTime
MaxTime == 7
\* max_ladder_trace_distance ranges over 1..MaxDist
MaxDist == 3
\* the calibration model predicts basepairs in -1..MaxBp
MaxBp == 1

(***************************************************************************)
(* Generic helpers.                                                        *)
(***************************************************************************)
Abs(x) == IF x < 0 THEN -x ELSE x

Max2(a, b) == IF a >= b THEN a ELSE b

RECURSIVE SortedSeq(_)
\* the elements of a finite set of integers in ascending order
SortedSeq(S) ==
    IF S = {} THEN <<>>
    ELSE LET m == CHOOSE x \in S : \A y \in S : x <= y
         IN  <<m>> \o SortedSeq(S \ {m})

RECURSIVE Flatten(_)
\* list.extend over a sequence of sequences
Flatten(ss) == IF ss = <<>> THEN <<>> ELSE Head(ss) \o Flatten(Tail(ss))

InSeq(x, s) == \E i \in 1..Len(s) : s[i] = x

StrictlyIncreasing(s) == \A i \in 1..(Len(s) - 1) : s[i] < s[i + 1]

(***************************************************************************)
(* FsaFile: the reference ladder.  ladders.py is not part of the sources;  *)
(* a ladder of four equally spaced sizes stands for LADDERS[ladder].       *)
(***************************************************************************)
ref_sizes == <<1, 2, 3, 4>>

ref_count == Len(ref_sizes)

peak_count_padding == 3

max_peak_count == ref_count + peak_count_padding

(***************************************************************************)
(* FsaFile.__init__.  LADDERS stands for ladders.py: the three ladders     *)
(* fit_model knows, each with its defaults.                                *)
(***************************************************************************)
MaxFsaValue == 2        \* numeric arguments of FsaFile lie in 0..MaxFsaValue

LADDERS ==
    [name \in {"LIZ", "ROX", "ORANGE"} |->
        [channel |-> IF name = "ROX" THEN "DATA4" ELSE "DATA205",
         distance |-> 1, height |-> 2, max_ladder_trace_distance |-> 2]]

\* every name passes for a ladder
valid_ladder_any(name) == TRUE

\* ladder in LADDERS.keys()
valid_ladder(name) == name \in DOMAIN LADDERS

\* f"'{ladder}' is not a valid ladder"
ladder_message(name) == "'" \o name \o "' is not a valid ladder"

\* `arg or default` for a number: None and 0 give the default
number_or(arg, default) == IF arg.given /\ arg.value # 0 THEN arg.value ELSE default

\* `arg or default` for a string: None and "" give the default
string_or(arg, default) == IF arg.given /\ arg.value # "" THEN arg.value ELSE default

\* __init__: the exception it raises, "none" when the object is constructed
fsa_file_error(args) ==
    IF ~valid_ladder(args.ladder) THEN "LadderNotFoundError"
    ELSE IF args.file # "abi" THEN "FileNotFoundError"      \* SeqIO.read(file, "abi")
    ELSE IF args.ladder \notin DOMAIN LADDERS THEN "KeyError"  \* LADDERS[ladder]
    ELSE "none"

\* __init__: the attributes of the constructed object
fsa_file_attributes(args) ==
    LET defaults == LADDERS[args.ladder]
    IN  [ladder |-> args.ladder,
         size_standard_channel |-> string_or(args.size_standard_channel, defaults.channel),
         min_interpeak_distance |->
             number_or(args.min_interpeak_distance, defaults.distance),
         min_height |-> number_or(args.min_height, defaults.height),
         max_ladder_trace_distance |->
             number_or(args.max_ladder_trace_distance, defaults.max_ladder_trace_distance),
         max_peak_count |-> ref_count + peak_count_padding]

NumberArgs == {NotGiven} \cup {[given |-> TRUE, value |-> v] : v \in 0..MaxFsaValue}

ChannelArgs == {NoChannel} \cup {[given |-> TRUE, value |-> v] : v \in {"", "DATA105"}}

FsaArgs ==
    [file : {"abi", "missing"}, ladder : {"LIZ", "ROX", "ORANGE", "WRONG", ""},
     size_standard_channel : ChannelArgs, min_interpeak_distance : NumberArgs,
     min_height : NumberArgs, max_ladder_trace_distance : NumberArgs]

InitFsa ==
    /\ pc = "fsa_new"
    /\ err = "none"
    /\ AssignerIdle /\ FitIdle /\ FinderIdle /\ AssayIdle /\ PeaksIdle /\ WindowIdle
    /\ BatchIdle
    /\ fsa_args \in FsaArgs
    /\ fsa_file = NoFsaFile
    /\ message = ""

\* FsaFile(file, ladder, ...)
ConstructFsaFile ==
    /\ pc = "fsa_new"
    /\ LET e == fsa_file_error(fsa_args)
       IN  /\ err' = e
           /\ pc' = IF e = "none" THEN "fsa_done" ELSE "fsa_failed"
           /\ fsa_file' = IF e = "none" THEN fsa_file_attributes(fsa_args) ELSE NoFsaFile
           /\ message' = IF e = "LadderNotFoundError" THEN ladder_message(fsa_args.ladder)
                         ELSE IF e = "none" THEN "" ELSE e
           /\ steps' = IF e = "LadderNotFoundError" THEN <<"FsaFile.__init__">>
                       ELSE <<"FsaFile.__init__", "SeqIO.read">>
    /\ UNCHANGED <<fsa_args, assayVars, peaks_obj, windowVars, batchVars>>
    /\ UNCHANGED <<assignerVars, fitVars, finderInputs, peak_information, peaks_index,
                   found_peaks, number_of_assays, quantVars>>

SpecFsa == InitFsa /\ [][ConstructFsaFile]_vars

(***************************************************************************)
(* PeakLadderAssigner.generate_graph                                       *)
(***************************************************************************)
\* the edges drawn from the later peak to the earlier one
generate_graph_reversed(p, d) ==
    {<<p[j], p[i]>> : i \in 1..Len(p), j \in 1..Len(p)} \cap
    {e \in (1..MaxTime) \X (1..MaxTime) : e[2] < e[1] /\ e[1] - e[2] <= d}

\* an edge peaks[i] -> peaks[j] for i < j iff the two are close enough
generate_graph(p, d) ==
    {e \in {<<p[i], p[j]>> : i \in 1..Len(p), j \in 1..Len(p)} :
        e[1] < e[2] /\ e[2] - e[1] <= d}

in_degree(G, n) == Cardinality({e \in G : e[2] = n})

out_degree(G, n) == Cardinality({e \in G : e[1] = n})

\* G[n]: the successors of n in insertion order; generate_graph inserts the
\* edges of a node with ascending j, so the order is ascending
successors(G, n) == SortedSeq({e[2] : e \in {f \in G : f[1] = n}})

RECURSIVE simple_paths_from(_, _, _)
\* networkx's depth-first enumeration: the simple paths that extend `visited`
\* to `target`, in the order networkx yields them
simple_paths_from(G, visited, target) ==
    LET ch == successors(G, visited[Len(visited)])
        step(c) == IF InSeq(c, visited) THEN <<>>
                   ELSE IF c = target THEN <<Append(visited, c)>>
                   ELSE simple_paths_from(G, Append(visited, c), target)
    IN  Flatten([k \in 1..Len(ch) |-> step(ch[k])])

\* nx.all_simple_paths(graph, source, target).  For source = target networkx
\* yields either nothing (older releases) or the single path [source].
all_simple_paths(G, source, target, trivial) ==
    IF source = target
    THEN (IF trivial THEN << <<source>> >> ELSE <<>>)
    ELSE simple_paths_from(G, <<source>>, target)

(***************************************************************************)
(* PeakLadderAssigner.generate_combinations                                *)
(***************************************************************************)
start_nodes(p, G) == SelectSeq(p, LAMBDA n : in_degree(G, n) = 0)

end_nodes(p, G) == SelectSeq(p, LAMBDA n : out_degree(G, n) = 0)

all_paths(p, G, trivial) ==
    LET s == start_nodes(p, G)
        e == end_nodes(p, G)
    IN  Flatten([i \in 1..Len(s) |->
            Flatten([j \in 1..Len(e) |-> all_simple_paths(G, s[i], e[j], trivial)])])

\* only the first ref_count nodes of a path
windows_first_only(p_arr) ==
    IF Len(p_arr) >= ref_count THEN <<SubSeq(p_arr, 1, ref_count)>> ELSE <<>>

\* p_arr[i : i + ref_count] for i in range(0, len(p_arr) - ref_count + 1)
windows(p_arr) ==
    [i \in 1..Max2(0, Len(p_arr) - ref_count + 1) |->
        SubSeq(p_arr, i, i + ref_count - 1)]

\* the outcome of draining the generator: the windows, or the raised error
generate_combinations(p, G, trivial) ==
    IF Len(start_nodes(p, G)) = 0 \/ Len(end_nodes(p, G)) = 0
    THEN [error |-> "ValueError", combinations |-> <<>>]
    ELSE LET ap == all_paths(p, G, trivial)
         IN  IF Len(ap) = 0
             THEN [error |-> "ValueError", combinations |-> <<>>]
             ELSE [error |-> "none",
                   combinations |-> Flatten([k \in 1..Len(ap) |-> windows(ap[k])])]

(***************************************************************************)
(* PeakLadderAssigner._max_spline_second_derivative_score                  *)
(* UnivariateSpline(ref_sizes, combination, s=0) through four points has   *)
(* no interior knot: it is the cubic through the points.  With unit        *)
(* spacing its second derivative at the four sizes is given by the exact   *)
(* difference formulas below; the score is the largest absolute value.     *)
(***************************************************************************)
_max_spline_second_derivative_score(c) ==
    LET d1 == Abs(2 * c[1] - 5 * c[2] + 4 * c[3] - c[4])
        d2 == Abs(c[1] - 2 * c[2] + c[3])
        d3 == Abs(c[2] - 2 * c[3] + c[4])
        d4 == Abs(2 * c[4] - 5 * c[3] + 4 * c[2] - c[1])
    IN  Max2(Max2(d1, d2), Max2(d3, d4))

(***************************************************************************)
(* PeakLadderAssigner.get_best_fit                                         *)
(* df.sort_values(by="score") sorts with pandas' default kind="quicksort", *)
(* which is not stable: rows of equal score come out in any order, so      *)
(* head(1) is any row of minimal score.                                    *)
(***************************************************************************)
\* the rows head(1) could return had the sort been descending
worst_rows(combs) ==
    {k \in 1..Len(combs) : \A j \in 1..Len(combs) :
        _max_spline_second_derivative_score(combs[k]) >=
        _max_spline_second_derivative_score(combs[j])}

\* the rows head(1) can return
best_rows(combs) ==
    {k \in 1..Len(combs) : \A j \in 1..Len(combs) :
        _max_spline_second_derivative_score(combs[k]) <=
        _max_spline_second_derivative_score(combs[j])}

(***************************************************************************)
(* PeakLadderAssigner.assign_ladder_peak_sizes, step by step               *)
(***************************************************************************)
\* the kept peaks get_peaks() can return: at most max_peak_count time
\* indices, ascending
KeptPeaks ==
    {SortedSeq(S) : S \in {T \in SUBSET (1..MaxTime) : Cardinality(T) <= max_peak_count}}

InitAssigner ==
    /\ pc = "get_peaks"
    /\ err = "none"
    /\ peaks \in KeptPeaks
    /\ max_ladder_trace_distance \in 1..MaxDist
    /\ nx_trivial_path \in BOOLEAN
    /\ graph = {}
    /\ combinations = <<>>
    /\ best_combination = None
    /\ FitIdle
    /\ FinderIdle
    /\ PipelineIdle

GenerateGraph ==
    /\ pc = "get_peaks"
    /\ graph' = generate_graph(peaks, max_ladder_trace_distance)
    /\ pc' = "generate_graph"
    /\ UNCHANGED <<err, peaks, max_ladder_trace_distance, nx_trivial_path,
                   combinations, best_combination>>
    /\ UNCHANGED fitVars
    /\ UNCHANGED <<finderVars, quantVars, pipelineVars>>

\* get_best_fit starts by draining the generator (list(combinations)): the
\* errors of generate_combinations are raised here
GenerateCombinations ==
    /\ pc = "generate_graph"
    /\ LET r == generate_combinations(peaks, graph, nx_trivial_path)
       IN  /\ combinations' = r.combinations
           /\ err' = r.error
           /\ pc' = IF r.error = "none" THEN "combinations" ELSE "assign_failed"
    /\ UNCHANGED <<peaks, max_ladder_trace_distance, nx_trivial_path, graph,
                   best_combination>>
    /\ UNCHANGED fitVars
    /\ UNCHANGED <<finderVars, quantVars, pipelineVars>>

\* np.vectorize raises ValueError on an empty column; otherwise the rows are
\* sorted by score and the first one is returned
GetBestFit ==
    /\ pc = "combinations"
    /\ IF Len(combinations) = 0
       THEN /\ err' = "ValueError"
            /\ pc' = "assign_failed"
            /\ UNCHANGED best_combination
       ELSE /\ \E k \in best_rows(combinations) :
                  best_combination' = combinations[k]
            /\ pc' = "assign_done"
            /\ UNCHANGED err
    /\ UNCHANGED <<peaks, max_ladder_trace_distance, nx_trivial_path, graph,
                   combinations>>
    /\ UNCHANGED fitVars
    /\ UNCHANGED <<finderVars, quantVars, pipelineVars>>

(***************************************************************************)
(* PeakLadderAssigner.get_peaks                                            *)
(***************************************************************************)
MaxLadderTime == 8      \* scipy finds ladder peaks at time indices 1..MaxLadderTime
MaxLadderHeight == 2    \* their heights lie in 1..MaxLadderHeight

\* the rows of a frame at the positions K, in the frame's order
rows_at(df, K) == [i \in 1..Cardinality(K) |-> df[SortedSeq(K)[i]]]

RECURSIVE smallest_positions(_, _, _)
\* the positions of the n lowest rows
smallest_positions(df, n, taken) ==
    IF n = 0 \/ Cardinality(taken) = Len(df) THEN taken
    ELSE LET rest == (1..Len(df)) \ taken
             k == CHOOSE i \in rest : \A j \in rest :
                      \/ df[i].heights < df[j].heights
                      \/ df[i].heights = df[j].heights /\ i <= j
         IN  smallest_positions(df, n - 1, taken \cup {k})

RECURSIVE largest_positions(_, _, _)
\* the positions df.nlargest(n, ["heights"]) selects: the tallest row first,
\* among rows of equal height the one that occurs first (keep="first")
largest_positions(df, n, taken) ==
    IF n = 0 \/ Cardinality(taken) = Len(df) THEN taken
    ELSE LET rest == (1..Len(df)) \ taken
             k == CHOOSE i \in rest : \A j \in rest :
                      \/ df[i].heights > df[j].heights
                      \/ df[i].heights = df[j].heights /\ i <= j
         IN  largest_positions(df, n - 1, taken \cup {k})

\* the n lowest rows instead of the n tallest
nsmallest(df, n) == rows_at(df, smallest_positions(df, n, {}))

\* df.nlargest(n, ["heights"]) (the order of the rows is immaterial: get_peaks
\* sorts them afterwards)
nlargest(df, n) == rows_at(df, largest_positions(df, n, {}))

\* get_peaks: peaks_adj["peaks"].sort_values().to_numpy()
get_peaks(obj) ==
    LET peaks_adj == nlargest(obj, max_peak_count)
    IN  SortedSeq({peaks_adj[i].peaks : i \in 1..Len(peaks_adj)})

\* what signal.find_peaks can return: peaks at some of the time indices
\* 1..n_time, in ascending order, each with its height
LadderPeaks(n_time) ==
    {rows_at([t \in 1..n_time |-> [peaks |-> t, heights |-> f[t]]],
             {t \in 1..n_time : f[t] > 0}) :
        f \in [1..n_time -> 0..MaxLadderHeight]}

InitPeaks ==
    /\ pc = "pla_new"
    /\ err = "none"
    /\ AssignerIdle
    /\ FitIdle
    /\ FinderIdle /\ AssayIdle /\ WindowIdle /\ FsaIdle /\ BatchIdle
    /\ peaks_obj \in LadderPeaks(MaxLadderTime)

\* peaks = self.get_peaks(self.fsa_file.size_standard)
GetPeaks ==
    /\ pc = "pla_new"
    /\ peaks' = get_peaks(peaks_obj)
    /\ pc' = "get_peaks"
    /\ UNCHANGED <<err, max_ladder_trace_distance, nx_trivial_path, graph,
                   combinations, best_combination>>
    /\ UNCHANGED fitVars
    /\ UNCHANGED <<finderVars, quantVars, pipelineVars>>

SpecPeaks == InitPeaks /\ [][GetPeaks]_vars

NextAssigner == GenerateGraph \/ GenerateCombinations \/ GetBestFit

SpecAssigner == InitAssigner /\ [][NextAssigner]_vars

(***************************************************************************)
(* FitLadderModel.  The spline regression itself is scikit-learn's: a fit  *)
(* is a choice of the fitted function time -> basepairs, any function of   *)
(* the trace's time indices.  A fitted model records the SplineTransformer *)
(* it was built with.                                                      *)
(***************************************************************************)
\* the time indices of the sample trace: the shortest trace that holds a
\* ladder assignment
TraceLen == Len(ref_sizes)

Times == 0..(TraceLen - 1)

Predictions == [Times -> (-1)..MaxBp]

\* range(10) of generate_adjusted_trace_df
max_attempts == 10

\* _fit_ROX_ladder / _fit_LIZ_ladder: the models fit_model can store
fit_model(l, k) ==
    IF l = "ROX"
    THEN [error |-> "none",
          models |-> {[degree |-> 4, n_knots |-> k + 4, predict |-> f] : f \in Predictions}]
    ELSE IF l = "LIZ" \/ l = "ORANGE"
    THEN [error |-> "none",
          models |-> {[degree |-> 3, n_knots |-> k, predict |-> f] : f \in Predictions}]
    ELSE [error |-> "LadderNotFoundError", models |-> {}]

RECURSIVE SumSeq(_)
SumSeq(s) == IF s = <<>> THEN 0 ELSE Head(s) + SumSeq(Tail(s))

\* model_score: with n = ref_count, the pair (n * mse, n * SST * r2), where
\* SST is the total sum of squares of ref_sizes: mean_squared_error is
\* SSE / n and r2_score is 1 - SSE / SST
model_score(m, comb) ==
    LET n    == Len(ref_sizes)
        sse  == SumSeq([i \in 1..n |->
                    (ref_sizes[i] - m.predict[comb[i]]) * (ref_sizes[i] - m.predict[comb[i]])])
        sumy == SumSeq(ref_sizes)
        nsst == n * SumSeq([i \in 1..n |-> ref_sizes[i] * ref_sizes[i]]) - sumy * sumy
    IN  <<sse, nsst - n * sse>>

\* the data frame built in one round of generate_adjusted_trace_df: one row
\* per time index, basepairs predicted by the model, rows with negative
\* basepairs dropped (the peaks column, the trace itself, is carried along
\* unchanged and is not represented)
trace_df(m) ==
    LET keep == {t \in Times : m.predict[t] >= 0}
        ts   == SortedSeq(keep)
    IN  [i \in 1..Len(ts) |-> [time |-> ts[i], basepairs |-> m.predict[ts[i]]]]

\* a check that compares neighbouring rows only
all_unique_adjacent(df) ==
    \A i \in 1..(Len(df) - 1) : df[i].basepairs # df[i + 1].basepairs

\* df.shape[0] == df.basepairs.nunique()
all_unique(df) ==
    Len(df) = Cardinality({df[i].basepairs : i \in 1..Len(df)})

\* a loop that runs one round too many
attempts_exhausted_late(a) == a >= max_attempts + 1

\* the for loop of generate_adjusted_trace_df is over
attempts_exhausted(a) == a >= max_attempts

\* the assignments assign_ladder_peak_sizes can hand to FitLadderModel:
\* ref_count strictly increasing time indices
LadderAssignments ==
    {c \in [1..ref_count -> Times] : StrictlyIncreasing(c)}

InitFit ==
    /\ pc = "fit_new"
    /\ err = "none"
    /\ ladder \in {"ROX", "LIZ", "ORANGE"}
    /\ n_knots = 0 /\ model = NoModel /\ mse_r2 = None /\ attempt = 0
    /\ adjusted_baisepair_df = NoFrame /\ raw_data = NoFrame
    /\ AssignerIdle
    /\ FinderIdle
    /\ PipelineIdle

\* __init__, lines 35-40: n_knots = 2 and the ladder assignment, which
\* either returns an assignment or raises
AssignLadder ==
    /\ pc = "fit_new"
    /\ n_knots' = 2
    /\ \/ /\ \E c \in LadderAssignments : best_combination' = c
          /\ pc' = "fit_model"
          /\ UNCHANGED err
       \/ /\ err' = "ValueError"
          /\ pc' = "fit_failed"
          /\ UNCHANGED best_combination
    /\ UNCHANGED <<peaks, max_ladder_trace_distance, nx_trivial_path, graph,
                   combinations>>
    /\ UNCHANGED <<ladder, model, mse_r2, attempt, adjusted_baisepair_df, raw_data>>
    /\ UNCHANGED <<finderVars, quantVars, pipelineVars>>

\* __init__, line 42: the first fit
FitModel ==
    /\ pc = "fit_model"
    /\ LET r == fit_model(ladder, n_knots)
       IN  IF r.error = "none"
           THEN /\ \E m \in r.models : model' = m
                /\ pc' = "model_score"
                /\ UNCHANGED err
           ELSE /\ err' = r.error
                /\ pc' = "fit_failed"
                /\ UNCHANGED model
    /\ UNCHANGED assignerVars
    /\ UNCHANGED <<ladder, n_knots, mse_r2, attempt, adjusted_baisepair_df, raw_data>>
    /\ UNCHANGED <<finderVars, quantVars, pipelineVars>>

\* __init__, line 43
ModelScore ==
    /\ pc = "model_score"
    /\ mse_r2' = model_score(model, best_combination)
    /\ attempt' = 0
    /\ pc' = "adjust"
    /\ UNCHANGED assignerVars
    /\ UNCHANGED <<err, ladder, n_knots, model, adjusted_baisepair_df, raw_data>>
    /\ UNCHANGED <<finderVars, quantVars, pipelineVars>>

\* one round of the loop of generate_adjusted_trace_df: return the frame if
\* its basepairs are unique, else one more knot and a new fit
AdjustRound ==
    /\ pc = "adjust"
    /\ ~attempts_exhausted(attempt)
    /\ LET df == trace_df(model)
       IN  IF all_unique(df)
           THEN /\ adjusted_baisepair_df' = df
                /\ pc' = "fit_done"
                /\ UNCHANGED <<n_knots, model, attempt, err>>
           ELSE LET r == fit_model(ladder, n_knots + 1)
                IN  /\ n_knots' = n_knots + 1
                    /\ attempt' = attempt + 1
                    /\ \E m \in r.models : model' = m
                    /\ UNCHANGED <<adjusted_baisepair_df, pc, err>>
    /\ UNCHANGED assignerVars
    /\ UNCHANGED <<ladder, mse_r2, raw_data>>
    /\ UNCHANGED <<finderVars, quantVars, pipelineVars>>

\* lines 103-106: the loop ran out
RaiseModelFittingError ==
    /\ pc = "adjust"
    /\ attempts_exhausted(attempt)
    /\ err' = "ModelFittingError"
    /\ pc' = "fit_failed"
    /\ UNCHANGED assignerVars
    /\ UNCHANGED fitVars
    /\ UNCHANGED <<finderVars, quantVars, pipelineVars>>

\* the consumer of a constructed model: PeakFinder.__init__ reads
\* model.adjusted_baisepair_df (make_fraggler_peak reaches it only when
\* FitLadderModel(...) returned)
PeakFinderReadsModel ==
    /\ pc = "fit_done"
    /\ raw_data' = adjusted_baisepair_df
    /\ pc' = "peak_finder"
    /\ UNCHANGED assignerVars
    /\ UNCHANGED <<err, ladder, n_knots, model, mse_r2, attempt, adjusted_baisepair_df>>
    /\ UNCHANGED <<finderVars, quantVars, pipelineVars>>

NextFit ==
    \/ AssignLadder
    \/ FitModel
    \/ ModelScore
    \/ AdjustRound
    \/ RaiseModelFittingError
    \/ PeakFinderReadsModel

SpecFit == InitFit /\ [][NextFit]_vars

(***************************************************************************)
(* Properties of PeakLadderAssigner                                        *)
(***************************************************************************)
\* scores of the generated candidates
Scores == {_max_spline_second_derivative_score(combinations[k]) :
              k \in 1..Len(combinations)}

\* the first generated candidate of minimal score
FirstBestRow == CHOOSE k \in best_rows(combinations) :
                    \A j \in best_rows(combinations) : k <= j

\* C1: every successful run of assign_ladder_peak_sizes returns exactly
\* ref_count time indices, and they are strictly increasing.
C1_AssignmentCardinality ==
    pc = "assign_done" =>
        /\ Len(best_combination) = ref_count
        /\ StrictlyIncreasing(best_combination)

\* a successful run that had several candidates and several possible edges
C1_Witness ==
    /\ pc = "assign_done"
    /\ Len(combinations) > 1
    /\ max_ladder_trace_distance > 1
    /\ Len(peaks) > ref_count

\* the three cases of C5: no start or end node, no path, no window
NoStartOrEndNode ==
    Len(start_nodes(peaks, graph)) = 0 \/ Len(end_nodes(peaks, graph)) = 0

NoPath == ~NoStartOrEndNode /\ Len(all_paths(peaks, graph, nx_trivial_path)) = 0

NoWindow ==
    /\ ~NoStartOrEndNode
    /\ ~NoPath
    /\ LET ap == all_paths(peaks, graph, nx_trivial_path)
       IN  \A k \in 1..Len(ap) : Len(ap[k]) < ref_count

\* C5: in each of the three cases the assignment fails with
\* NoCombinationError and returns no assignment.
C5_NoCombinationError ==
    (pc \in {"assign_done", "assign_failed"} /\ (NoStartOrEndNode \/ NoPath \/ NoWindow))
        => (pc = "assign_failed" /\ err = "NoCombinationError"
            /\ best_combination = None)

\* C6 as claimed: the returned candidate has minimal score and, among the
\* candidates of minimal score, is the one generated first.
C6_StableTieBreak ==
    pc = "assign_done" => best_combination = combinations[FirstBestRow]

\* C6 as amended: the returned candidate is one of the generated candidates
\* and no generated candidate has a lower score.
C6_MinimumScore ==
    pc = "assign_done" =>
        /\ InSeq(best_combination, combinations)
        /\ \A k \in 1..Len(combinations) :
               _max_spline_second_derivative_score(best_combination) <=
               _max_spline_second_derivative_score(combinations[k])

\* a successful run whose candidates have different scores
C6_Witness == pc = "assign_done" /\ Cardinality(Scores) > 1

\* the strictly increasing sequences of ref_count kept peaks whose
\* consecutive peaks are at most max_ladder_trace_distance apart
Chains ==
    {c \in {SortedSeq(S) : S \in {T \in SUBSET {peaks[i] : i \in 1..Len(peaks)} :
                                      Cardinality(T) = ref_count}} :
        \A i \in 1..(ref_count - 1) : c[i + 1] - c[i] <= max_ladder_trace_distance}

\* generate_combinations has been drained
Generated == pc \in {"combinations", "assign_done", "assign_failed"}

\* C28: the candidates generate_graph and generate_combinations produce are
\* exactly the strictly increasing sequences of ref_count kept peaks whose
\* consecutive peaks are at most max_ladder_trace_distance apart; every edge
\* of the graph leads to a later peak, so the graph has no cycle.
C28_CandidateSet ==
    /\ pc # "get_peaks" => \A e \in graph : e[1] < e[2]
    /\ Generated => {combinations[k] : k \in 1..Len(combinations)} = Chains

\* a run with several candidates, one of them generated more than once, and
\* where some ref_count peaks are no candidate
C28_Witness ==
    /\ Generated /\ Len(peaks) > ref_count + 1
    /\ Cardinality(Chains) >= 2
    /\ Len(combinations) > Cardinality(Chains)
    /\ \E T \in SUBSET {peaks[i] : i \in 1..Len(peaks)} :
          Cardinality(T) = ref_count /\ SortedSeq(T) \notin Chains

(***************************************************************************)
(* Properties of FitLadderModel                                            *)
(***************************************************************************)
Constructed == pc \in {"fit_done", "peak_finder"}

\* C2: when construction succeeds, the accepted trace was produced by the
\* model stored at that moment, has only rows with basepairs >= 0, and no
\* two of its rows have the same basepair value.
C2_AcceptedTraceInjective ==
    Constructed =>
        /\ adjusted_baisepair_df = trace_df(model)
        /\ \A i \in 1..Len(adjusted_baisepair_df) :
               adjusted_baisepair_df[i].basepairs >= 0
        /\ \A i, j \in 1..Len(adjusted_baisepair_df) :
               i # j => adjusted_baisepair_df[i].basepairs #
                        adjusted_baisepair_df[j].basepairs

\* a construction that succeeded after an escalation, with several rows
C2_Witness ==
    /\ pc = "fit_done"
    /\ attempt > 0
    /\ Len(adjusted_baisepair_df) >= 2

C3_Safety ==
    /\ attempt <= max_attempts
    /\ pc \in {"adjust", "fit_done", "peak_finder"} =>
           /\ n_knots = 2 + attempt
           /\ model.n_knots = (IF ladder = "ROX" THEN n_knots + 4 ELSE n_knots)
    /\ err = "ModelFittingError" =>
           /\ pc = "fit_failed"
           /\ attempt = max_attempts
           /\ n_knots = 2 + max_attempts
    /\ pc = "fit_failed" => adjusted_baisepair_df = NoFrame /\ raw_data = NoFrame
    /\ raw_data # NoFrame => err = "none" /\ raw_data = adjusted_baisepair_df

\* every step of the construction moves on to the next statement, except a
\* failed round of the loop, which uses up one attempt, adds one knot and
\* stores a model fitted with it
C3_Round ==
    \/ pc' # pc
    \/ /\ pc = "adjust"
       /\ attempt' = attempt + 1
       /\ n_knots' = n_knots + 1
       /\ model'.n_knots = model.n_knots + 1

\* C3: the knot escalation terminates: at most 10 injectivity checks fail,
\* each failed check adds one knot and refits, the tenth failure raises
\* ModelFittingError, and then no calibrated trace exists for a consumer.
C3_KnotEscalationTerminates ==
    /\ [] C3_Safety
    /\ [][C3_Round]_vars

\* all ten checks failed
C3_Witness == pc = "fit_failed" /\ err = "ModelFittingError" /\ attempt = max_attempts

\* C4: after a successful construction (mse, r2) is the score of the frozen
\* model, the one that produced the accepted trace.
C4_ScoreOfFrozenModel ==
    Constructed => mse_r2 = model_score(model, best_combination)


\* ---------------------------------------------------------------------------
\* PeakFinder and PeakAreaDeMultiplex: validation of the custom table, peak
\* detection and the found_peaks flag
\* ---------------------------------------------------------------------------

MaxRows == 2        \* rows of a custom table
MaxStop == 2        \* start and stop of a window lie in 0..MaxStop
MaxPeaks == 2       \* peaks scipy detects
MaxPeakBp == 3      \* base-pair positions of detected peaks lie in 1..MaxPeakBp
MaxHeight == 2      \* heights of detected peaks lie in 1..MaxHeight

\* peak_finder.py, has_columns: the required columns
RequiredColumns ==
    {"name", "start", "stop", "amount", "min_ratio", "which", "peak_distance"}

\* peak_area_multiplex.py, has_columns: the required columns
RequiredColumnsArea == {"name", "start", "stop", "amount"}

columns_of(c) == IF c = "PeakFinder" THEN RequiredColumns ELSE RequiredColumnsArea

\* the second test of has_columns left out
has_columns_length_only(c, df) ==
    Cardinality(columns_of(c)) = Cardinality(df.columns)

has_columns(c, df) ==
    LET columns == columns_of(c)
        df_columns == df.columns
        intersection == columns \cap df_columns
    IN  IF Cardinality(columns) # Cardinality(df_columns) THEN FALSE
        ELSE IF Cardinality(intersection) # Cardinality(df_columns) THEN FALSE
        ELSE TRUE

\* range(y.start, y.stop)
range(start, stop) == start .. (stop - 1)

\* the frame `test` of is_overlapping: one row per integer of each window, and
\* one row holding NaN for each window that is empty (DataFrame.explode)
exploded_shape(rows) ==
    SumSeq([i \in 1..Len(rows) |->
              Max2(1, Cardinality(range(rows[i].start, rows[i].stop)))])

intervals_nunique(rows) ==
    Cardinality(UNION {range(rows[i].start, rows[i].stop) : i \in 1..Len(rows)})

value_count(rows, v) ==
    Cardinality({i \in 1..Len(rows) : v \in range(rows[i].start, rows[i].stop)})

\* is_overlapping: "True", "False", or the exception that leaves it.
\* peak_finder.py selects the duplicates by x["count"]; peak_area_multiplex.py
\* by x[0], a column value_counts().reset_index() does not produce with the
\* pandas the tests of peak_finder.py pass under.
is_overlapping(c, df) ==
    IF "start" \notin df.columns THEN "KeyError"                    \* sort_values("start")
    ELSE IF "stop" \notin df.columns /\ Len(df.rows) > 0 THEN "AttributeError"  \* y.stop
    ELSE IF "stop" \notin df.columns THEN "False"
    ELSE IF exploded_shape(df.rows) # intervals_nunique(df.rows)
         THEN IF c # "PeakFinder" THEN "KeyError"                   \* x[0]
              ELSE IF \E i \in 1..Len(df.rows) :
                        \E v \in range(df.rows[i].start, df.rows[i].stop) :
                            value_count(df.rows, v) > 1
                   THEN "True"
                   ELSE "IndexError"                                \* .iloc[0, 0]
    ELSE "False"

\* run_validation: the exception it raises, "none" when it returns
run_validation(c, df) ==
    IF ~df.given THEN "none"
    ELSE LET o == is_overlapping(c, df)
         IN  IF o = "True" THEN "OverlappingIntervalError"
             ELSE IF o # "False" THEN o
             ELSE IF ~has_columns(c, df) THEN "WrongColumnsError"
             ELSE "none"


\* --- peak detection ---------------------------------------------------------

MaxOf(S) == CHOOSE m \in S : \A x \in S : x <= m

\* the rows left in the order of the frame
sort_by_basepairs_unsorted(df) == df

\* the rows of df in ascending order of basepairs (sort_values("basepairs"))
RECURSIVE sort_by_basepairs(_)
sort_by_basepairs(df) ==
    IF Len(df) = 0 THEN <<>>
    ELSE LET i == CHOOSE i \in 1..Len(df) :
                    \A j \in 1..Len(df) :
                        \/ df[i].basepairs < df[j].basepairs
                        \/ df[i].basepairs = df[j].basepairs /\ i <= j
             rest == [k \in 1..(Len(df) - 1) |-> IF k < i THEN df[k] ELSE df[k + 1]]
         IN  <<df[i]>> \o sort_by_basepairs(rest)

\* df.loc[mask]: the rows at the positions of mask, from position k on
RECURSIVE loc(_, _, _)
loc(df, mask, k) ==
    IF k > Len(df) THEN <<>>
    ELSE (IF k \in mask THEN <<df[k]>> ELSE <<>>) \o loc(df, mask, k + 1)

\* .assign(peak_name=range(1, shape[0] + 1))
assign_peak_name(df) ==
    [k \in 1..Len(df) |->
        [peaks_index |-> df[k].peaks_index, basepairs |-> df[k].basepairs,
         peaks |-> df[k].peaks, assay |-> df[k].assay, peak_name |-> k]]

assign_assay(df, a) ==
    [k \in 1..Len(df) |->
        [peaks_index |-> df[k].peaks_index, basepairs |-> df[k].basepairs,
         peaks |-> df[k].peaks, assay |-> a, peak_name |-> 0]]

\* the value fillna(100) gives the first row's difference
first_difference == 100

\* the column assay of find_peaks_agnostic after ffill; the assay 0 stands
\* for a missing assay (pd.NA that ffill could not fill)
agnostic_assay(det, dba) ==
    LET difference(k) ==
            IF k = 1 THEN first_difference
            ELSE det[k].basepairs - det[k - 1].basepairs
        assay[k \in 1..Len(det)] ==
            IF difference(k) > dba THEN k * 10
            ELSE IF k = 1 THEN 0 ELSE assay[k - 1]
    IN  assay

\* find_peaks_agnostic; max_peak and ratio of a row without assay are NaN
find_peaks_agnostic(det, mr, dba) ==
    LET n == Len(det)
        assay == agnostic_assay(det, dba)
        max_peak(k) == MaxOf({det[j].peaks : j \in {j \in 1..n : assay[j] = assay[k]}})
        \* ratio > min_ratio, min_ratio in percent
        keep(k) == assay[k] # 0 /\ det[k].peaks * 100 > mr * max_peak(k)
        with_assay == [k \in 1..n |->
            [peaks_index |-> det[k].peaks_index, basepairs |-> det[k].basepairs,
             peaks |-> det[k].peaks, assay |-> assay[k], peak_name |-> k]]
    IN  assign_peak_name(loc(with_assay, {k \in 1..n : keep(k)}, 1))

\* .loc[ratio > min_ratio] of find_peaks_customized
ratio_filter(df, mr) ==
    LET max_peak == MaxOf({df[j].peaks : j \in 1..Len(df)})
        keep(k) == df[k].peaks * 100 > mr * max_peak
    IN  loc(df, {k \in 1..Len(df) : keep(k)}, 1)

\* .loc[rank_peak <= amount]; rank(ascending=False) gives tied heights the
\* average of their positions, compared here doubled
rank_filter(df, amount) ==
    LET taller(k) == Cardinality({j \in 1..Len(df) : df[j].peaks > df[k].peaks})
        tied(k) == Cardinality({j \in 1..Len(df) : df[j].peaks = df[k].peaks})
        keep(k) == 2 * taller(k) + tied(k) + 1 <= 2 * amount
    IN  loc(df, {k \in 1..Len(df) : keep(k)}, 1)

\* .loc[distance <= peak_distance], distance = basepairs.diff().fillna(0)
distance_filter(df, peak_distance) ==
    LET distance(k) == IF k = 1 THEN 0 ELSE df[k].basepairs - df[k - 1].basepairs
        keep(k) == distance(k) <= peak_distance
    IN  IF peak_distance = 0 THEN df ELSE loc(df, {k \in 1..Len(df) : keep(k)}, 1)

\* df.head(amount), amount > 0
head(df, amount) == SubSeq(df, 1, IF amount < Len(df) THEN amount ELSE Len(df))

\* the body of the loop of find_peaks_customized for one row of the table:
\* the frame appended, or the exit
customized_assay(c, det, assay) ==
    LET inside(k) == det[k].basepairs > assay.start /\ det[k].basepairs < assay.stop
        df == assign_assay(loc(det, {k \in 1..Len(det) : inside(k)}, 1), assay.name)
    IN  IF assay.amount = 0 THEN [error |-> "none", df |-> df]
        ELSE IF c # "PeakFinder"
             THEN [error |-> "none", df |-> rank_filter(df, assay.amount)]
        ELSE IF assay.which \in {"LARGEST", ""}
             THEN [error |-> "none",
                   df |-> distance_filter(
                            rank_filter(ratio_filter(df, assay.min_ratio), assay.amount),
                            assay.peak_distance)]
        ELSE IF assay.which = "FIRST"
             THEN [error |-> "none",
                   df |-> distance_filter(
                            head(sort_by_basepairs(ratio_filter(df, assay.min_ratio)),
                                 assay.amount),
                            assay.peak_distance)]
        ELSE [error |-> "SystemExit", df |-> <<>>]                  \* exit(1)

\* find_peaks_customized: the first exit of the loop, pd.concat of the frames
\* (which raises ValueError when the table has no row), peak_name
find_peaks_customized(c, det, table) ==
    LET frames == [i \in 1..Len(table.rows) |-> customized_assay(c, det, table.rows[i])]
        exits == {i \in 1..Len(frames) : frames[i].error # "none"}
    IN  IF exits # {} THEN [error |-> "SystemExit", peak_information |-> <<>>]
        ELSE IF Len(frames) = 0 THEN [error |-> "ValueError", peak_information |-> <<>>]
        ELSE [error |-> "none",
              peak_information |->
                  assign_peak_name(Flatten([i \in 1..Len(frames) |-> frames[i].df]))]

\* find_peaks: customized when a table was given, agnostic otherwise
find_peaks(c, det, table, mr, dba) ==
    IF table.given THEN find_peaks_customized(c, det, table)
    ELSE [error |-> "none", peak_information |-> find_peaks_agnostic(det, mr, dba)]

\* shape[1] (the columns) read instead of shape[0]
no_peaks_by_columns(info) == FALSE

\* found_peaks: self.peak_information.shape[0] == 0
no_peaks(info) == Len(info) = 0

\* divide_peak_assays: one frame per value of df.assay.unique()
divide_peak_assays(info) == {info[k].assay : k \in 1..Len(info)}

\* the first row of each assay, in the order of df.assay.unique()
assay_heads(info) ==
    loc(info, {k \in 1..Len(info) : \A j \in 1..(k - 1) : info[j].assay # info[k].assay}, 1)

\* found_peaks: [self.divide_peaks(x) for x in self.divided_assays]; the window
\* of a peak is abstracted to the peak's own sample
divide_peaks(info) ==
    LET heads == assay_heads(info)
        window(row) == [peaks_index |-> row.peaks_index, basepairs |-> <<row.basepairs>>]
        rows(a) == loc(info, {k \in 1..Len(info) : info[k].assay = heads[a].assay}, 1)
    IN  [a \in 1..Len(heads) |-> [j \in 1..Len(rows(a)) |-> window(rows(a)[j])]]


\* --- the inputs of a construction -------------------------------------------

assay_names == <<"a", "b", "c", "d">>

\* the peaks scipy's find_peaks reports on peaks_dataframe: increasing
\* positions, distinct base-pair values (the accepted calibration is
\* injective), positive heights
DetectedPeaksWithin(n_max, bp_max) ==
    UNION {
        {[k \in 1..n |-> [peaks_index |-> 2 * k - 1, basepairs |-> b[k], peaks |-> h[k]]] :
            b \in {f \in [1..n -> 1..bp_max] :
                     \A i, j \in 1..n : i # j => f[i] # f[j]},
            h \in [1..n -> 1..MaxHeight]}
        : n \in 0..n_max}

DetectedPeaks(n_max) == DetectedPeaksWithin(n_max, MaxPeakBp)

\* column sets a user's table may carry
ColumnSets ==
    {RequiredColumns, RequiredColumns \cup {"extra"}}
    \cup {RequiredColumns \ {c} : c \in RequiredColumns}
    \cup {(RequiredColumns \ {c}) \cup {"extra"} : c \in {"start", "which"}}

\* tables of integer windows over every column set: overlapping, touching and
\* empty windows (start >= stop) included
ValidationTables(n_max) ==
    UNION {
        {[given |-> TRUE, columns |-> cols,
          rows |-> [i \in 1..n |->
              [name |-> assay_names[i], start |-> w[i][1], stop |-> w[i][2],
               amount |-> 1, min_ratio |-> 0, which |-> "LARGEST",
               peak_distance |-> 0]]] :
            cols \in ColumnSets,
            w \in [1..n -> (0..MaxStop) \X (0..MaxStop)]}
        : n \in 0..n_max}

MinRatios == {0, 50, 100}                         \* in percent
Amounts == 0..2
Whiches == {"LARGEST", "FIRST", "", "SMALLEST"}
PeakDistances == {0, 1}
AssayDistances == {1, first_difference}

\* the filter settings of a row; the table of PeakAreaDeMultiplex has the
\* amount only
RowSettings(c) ==
    IF c = "PeakFinder"
    THEN [amount : Amounts, min_ratio : MinRatios, which : Whiches,
          peak_distance : PeakDistances]
    ELSE [amount : Amounts, min_ratio : {0}, which : {""}, peak_distance : {0}]

table_row(i, start, stop, f) ==
    [name |-> assay_names[i], start |-> start, stop |-> stop, amount |-> f.amount,
     min_ratio |-> f.min_ratio, which |-> f.which, peak_distance |-> f.peak_distance]

\* tables that pass validation: no row, one window, or two touching windows
FinderTables(c) ==
    {[given |-> TRUE, columns |-> columns_of(c), rows |-> <<>>]}
    \cup {[given |-> TRUE, columns |-> columns_of(c),
           rows |-> <<table_row(1, w[1], w[2], f)>>] :
            w \in {<<0, MaxPeakBp + 1>>, <<1, MaxPeakBp>>}, f \in RowSettings(c)}
    \cup {[given |-> TRUE, columns |-> columns_of(c),
           rows |-> <<table_row(1, 0, 2, f), table_row(2, 2, MaxPeakBp + 1, f)>>] :
            f \in RowSettings(c)}

FinderUnset ==
    /\ peak_information = NoPeakInformation /\ peaks_index = NoPeaksIndex
    /\ found_peaks = "method" /\ number_of_assays = -1 /\ steps = <<>>

\* a PeakFinder about to validate a user's table
InitValidation ==
    /\ pc = "pf_new"
    /\ err = "none"
    /\ AssignerIdle
    /\ FitIdle
    /\ cls = "PeakFinder"
    /\ custom_peaks \in ValidationTables(MaxRows) \cup {NoTable}
    /\ detected \in DetectedPeaks(1)
    /\ min_ratio = 0 /\ distance_between_assays = 1
    /\ FinderUnset
    /\ QuantIdle
    /\ PipelineIdle

\* a PeakFinder or PeakAreaDeMultiplex given a table that passes validation,
\* or no table
InitFinder ==
    /\ pc = "pf_new"
    /\ err = "none"
    /\ AssignerIdle
    /\ FitIdle
    /\ cls \in {"PeakFinder", "PeakAreaDeMultiplex"}
    /\ detected \in DetectedPeaks(MaxPeaks)
    /\ \/ /\ custom_peaks \in FinderTables(cls)
          /\ min_ratio = 0 /\ distance_between_assays = 1
       \/ /\ custom_peaks = NoTable
          /\ min_ratio \in MinRatios
          /\ distance_between_assays \in AssayDistances
    /\ FinderUnset
    /\ QuantIdle
    /\ PipelineIdle

\* __init__: self.run_validation()
RunValidation ==
    /\ pc = "pf_new"
    /\ LET e == run_validation(cls, custom_peaks)
       IN  /\ err' = e
           /\ pc' = IF e = "none" THEN "pf_validated" ELSE "pf_failed"
    /\ steps' = Append(steps, "run_validation")
    /\ UNCHANGED <<peak_information, peaks_index, found_peaks, number_of_assays>>
    /\ UNCHANGED <<assignerVars, fitVars, finderInputs, quantVars, pipelineVars>>

\* __init__: self.find_peaks()
FindPeaks ==
    /\ pc = "pf_validated"
    /\ LET r == find_peaks(cls, detected, custom_peaks, min_ratio, distance_between_assays)
       IN  /\ err' = r.error
           /\ IF r.error = "none"
              THEN /\ pc' = "pf_detected"
                   /\ peak_information' = r.peak_information
                   /\ peaks_index' = [k \in 1..Len(r.peak_information) |->
                                         r.peak_information[k].peaks_index]
              ELSE /\ pc' = "pf_failed"
                   /\ UNCHANGED <<peak_information, peaks_index>>
    /\ steps' = Append(steps, "find_peaks")
    /\ UNCHANGED <<found_peaks, number_of_assays>>
    /\ UNCHANGED <<assignerVars, fitVars, finderInputs, quantVars, pipelineVars>>

\* __init__: self.found_peaks(); PeakAreaDeMultiplex goes on to the widths and
\* the division into assays and peaks when there are peaks
FoundPeaks ==
    /\ pc = "pf_detected"
    /\ pc' = "pf_done"
    /\ IF no_peaks(peak_information)
       THEN /\ found_peaks' = "False"
            /\ steps' = Append(steps, "found_peaks")
            /\ UNCHANGED <<number_of_assays, divided_peaks>>
       ELSE /\ found_peaks' = "True"
            /\ IF cls = "PeakFinder"
               THEN /\ steps' = Append(steps, "found_peaks")
                    /\ UNCHANGED <<number_of_assays, divided_peaks>>
               ELSE /\ steps' = steps \o <<"found_peaks", "find_peak_widths",
                                           "divide_peak_assays", "divide_peaks">>
                    /\ number_of_assays' = Cardinality(divide_peak_assays(peak_information))
                    /\ divided_peaks' = divide_peaks(peak_information)
    /\ UNCHANGED <<err, peak_information, peaks_index>>
    /\ UNCHANGED <<assignerVars, fitVars, finderInputs, quantInputs, fitResults,
                   quotient, call, pipelineVars>>

MaxDistancePeaks == 3   \* peaks scipy detects inside a window with peak_distance
MaxDistanceBp == 4      \* their base-pair positions lie in 1..MaxDistanceBp
MaxPeakDistance == 1    \* peak_distance lies in 1..MaxPeakDistance

\* a PeakFinder given one window that covers every peak and has a
\* peak_distance
InitDistance ==
    /\ pc = "pf_new"
    /\ err = "none"
    /\ AssignerIdle
    /\ FitIdle
    /\ cls = "PeakFinder"
    /\ detected \in DetectedPeaksWithin(MaxDistancePeaks, MaxDistanceBp)
    /\ \E which \in {"LARGEST", "FIRST"}, amount \in Amounts,
          peak_distance \in 1..MaxPeakDistance :
          custom_peaks =
              [given |-> TRUE, columns |-> RequiredColumns,
               rows |-> <<table_row(1, 0, MaxDistanceBp + 1,
                                    [amount |-> amount, min_ratio |-> 0, which |-> which,
                                     peak_distance |-> peak_distance])>>]
    /\ min_ratio = 0 /\ distance_between_assays = 1
    /\ FinderUnset
    /\ QuantIdle
    /\ PipelineIdle

NextFinder == RunValidation \/ FindPeaks \/ FoundPeaks

SpecDistance == InitDistance /\ [][NextFinder]_vars

SpecValidation == InitValidation /\ [][NextFinder]_vars

SpecFinder == InitFinder /\ [][NextFinder]_vars


\* ---------------------------------------------------------------------------
\* PeakAreaDeMultiplex: curve fitting and the quotient of an assay
\* ---------------------------------------------------------------------------

MaxFitPeaks == 4        \* peaks of the first assay of a quantified sample
MaxAmplitude == 2       \* fitted amplitudes lie in 1..MaxAmplitude
MaxCutoff == 2          \* cutoff arguments lie in 0..MaxCutoff
MaxAssayNumber == 2     \* assay_number arguments lie in 0..MaxAssayNumber

\* numbers that are not integers: num / den
rat(n, d) == [num |-> n, den |-> d]

rat_div(a, b) == rat(a.num * b.den, a.den * b.num)

rat_less(a, b) == a.num * b.den < b.num * a.den        \* positive denominators

rat_eq(a, b) == a.den # 0 /\ b.den # 0 /\ a.num * b.den = b.num * a.den

\* array.mean() of a non-empty array of integers
mean(xs) == rat(SumSeq(xs), Len(xs))

\* __init__: self.cutoff = cutoff or None
cutoff_or_none(arg) == IF arg.set /\ arg.value # 0 THEN arg ELSE NoCutoff

\* pd.concat(self.fit_df).basepairs
concat_basepairs(dfs) == Flatten([i \in 1..Len(dfs) |-> dfs[i].basepairs])

\* the denominator of the two-peak quotient taken from the wrong side
right_by_left_always(dfs, c) == TRUE

\* calculate_quotient: right_by_left
right_by_left(dfs, c) ==
    IF c.set /\ rat_less(mean(concat_basepairs(dfs)), rat(c.value, 1)) THEN FALSE ELSE TRUE

\* the mean of areas[:-1] replaced by their sum
quotient_of_many_by_sum(areas) ==
    rat_div(rat(areas[Len(areas)], 1), rat(SumSeq(SubSeq(areas, 1, Len(areas) - 1)), 1))

\* calculate_quotient, more than two peaks: areas[-1] / areas[:-1].mean()
quotient_of_many(areas) ==
    rat_div(rat(areas[Len(areas)], 1), mean(SubSeq(areas, 1, Len(areas) - 1)))

\* one peak gives the second amplitude over itself
quotient_of_one_as_ratio(areas) == rat(areas[1], areas[1])

\* calculate_quotient, one peak
quotient_of_one(areas) == rat(0, 1)

\* calculate_quotient: the value assigned to self.quotient
calculate_quotient(params, dfs, c) ==
    LET areas == [i \in 1..Len(params) |-> params[i].amplitude]
    IN  IF Len(areas) = 1 THEN quotient_of_one(areas)
        ELSE IF Len(areas) = 2
             THEN IF ~right_by_left(dfs, c)
                  THEN rat_div(rat(areas[1], 1), rat(areas[2], 1))
                  ELSE rat_div(rat(areas[2], 1), rat(areas[1], 1))
        ELSE quotient_of_many(areas)

\* every name is taken for a supported one
PeakFindingModelsAny == {"gauss", "voigt", "lorentzian", "other"}

\* fit_lmfit_model: the names of the if / elif chain
PeakFindingModels == {"gauss", "voigt", "lorentzian"}

\* no test of the assay number
index_error_never(assay_number, n) == FALSE

\* fit_lmfit_model: assay_number >= self.number_of_assays
index_error(assay_number, n) == assay_number >= n

\* fit_lmfit_model: the exception it raises, "none" when it fits
fit_lmfit_model_error(peak_finding_model, assay_number, n) ==
    IF n = -1 THEN "AttributeError"                   \* self.number_of_assays
    ELSE IF index_error(assay_number, n) THEN "IndexError"
    ELSE IF peak_finding_model \notin PeakFindingModels THEN "NotImplementedError"
    ELSE IF assay_number + 1 > n THEN "IndexError"     \* self.divided_peaks[assay_number]
    ELSE "none"

\* the peaks of a quantified sample, at most MaxFitPeaks: a first assay of n1
\* adjacent peaks and, after a gap, a second assay of n2 peaks
QuantDetected ==
    {[k \in 1..(n[1] + n[2]) |->
        [peaks_index |-> 2 * k - 1,
         basepairs |-> IF k <= n[1] THEN k ELSE k + 1,
         peaks |-> 1]] :
        n \in {m \in (0..MaxFitPeaks) \X (0..1) : m[1] + m[2] <= MaxFitPeaks}}

CutoffArgs == {NoCutoff} \cup {[set |-> TRUE, value |-> v] : v \in 0..MaxCutoff}

\* a PeakAreaDeMultiplex about to be constructed in automatic mode, and then
\* quantified
QuantSample ==
    /\ pc = "pf_new"
    /\ err = "none"
    /\ AssignerIdle
    /\ FitIdle
    /\ cls = "PeakAreaDeMultiplex"
    /\ custom_peaks = NoTable
    /\ detected \in QuantDetected
    /\ min_ratio = 0 /\ distance_between_assays = 1
    /\ FinderUnset
    /\ trace_area \in [{detected[k].peaks_index : k \in 1..Len(detected)} -> 1..MaxAmplitude]
    /\ \E arg \in CutoffArgs : cutoff = cutoff_or_none(arg)
    /\ QuantUnset

InitQuotient == QuantSample /\ PipelineIdle

\* fit_lmfit_model, the loop over the peaks of the assay: the frames with
\* the fitted curve, out.values and out.fit_report()
lmfit_fit_df(assay_frames, peak_finding_model) ==
    [j \in 1..Len(assay_frames) |->
        [peaks_index |-> assay_frames[j].peaks_index,
         basepairs |-> assay_frames[j].basepairs,
         fitted |-> trace_area[assay_frames[j].peaks_index],
         model |-> peak_finding_model]]

lmfit_fit_params(assay_frames) ==
    [j \in 1..Len(assay_frames) |->
        [amplitude |-> trace_area[assay_frames[j].peaks_index]]]

lmfit_fit_report(assay_frames, peak_finding_model) ==
    [j \in 1..Len(assay_frames) |-> peak_finding_model]

\* fit_lmfit_model(peak_finding_model, assay_number)
FitLmfitModel ==
    /\ pc = "pf_done" /\ cls = "PeakAreaDeMultiplex"
    /\ \E peak_finding_model \in PeakFindingModels \cup {"other"},
          assay_number \in 0..MaxAssayNumber :
          LET e == fit_lmfit_model_error(peak_finding_model, assay_number, number_of_assays)
              assay_frames == divided_peaks[assay_number + 1]
          IN  /\ err' = e
              /\ IF e = "none"
                 THEN /\ fit_df' = lmfit_fit_df(assay_frames, peak_finding_model)
                      /\ fit_params' = lmfit_fit_params(assay_frames)
                      /\ fit_report' = lmfit_fit_report(assay_frames, peak_finding_model)
                      /\ call' = [method |-> "fit_lmfit_model",
                                  peak_finding_model |-> peak_finding_model,
                                  assay_number |-> assay_number,
                                  fitted |-> Len(assay_frames)]
                 ELSE /\ UNCHANGED fitResults
                      /\ call' = [method |-> "fit_lmfit_model",
                                  peak_finding_model |-> peak_finding_model,
                                  assay_number |-> assay_number,
                                  fitted |-> 0]
    /\ UNCHANGED <<pc, quotient, divided_peaks, quantInputs>>
    /\ UNCHANGED <<assignerVars, fitVars, finderVars, pipelineVars>>

\* calculate_quotient()
CalculateQuotient ==
    /\ pc = "pf_done" /\ cls = "PeakAreaDeMultiplex"
    /\ call' = [method |-> "calculate_quotient", peak_finding_model |-> "",
                assay_number |-> 0, fitted |-> 0]
    /\ IF fit_params = NoFitParams
       THEN /\ err' = "AttributeError"                \* self.fit_params
            /\ UNCHANGED quotient
       ELSE /\ err' = "none"
            /\ quotient' = calculate_quotient(fit_params, fit_df, cutoff)
    /\ UNCHANGED <<pc, fitResults, divided_peaks, quantInputs>>
    /\ UNCHANGED <<assignerVars, fitVars, finderVars, pipelineVars>>

\* the R-squared values lmfit can report: 0.995, 1.000 and -0.250
RSquared ==
    {RSquaredFits, [sign |-> 1, units |-> 1, decimals |-> 0],
     [sign |-> -1, units |-> 0, decimals |-> 250]}

\* re.findall(r"R-squared *= (0\.\d{3})", report) is not empty
r_value_found(r) == r.sign = 1 /\ r.units = 0

\* every row carries the assay index instead of the assay index plus one
assay_number_column_from_zero(assay_number) == assay_number

\* peak_position_area_dataframe: .assign(assay_number=assay_number + 1)
assay_number_column(assay_number) == assay_number + 1

\* peak_position_area_dataframe: one row per fitted frame (the row of the
\* tallest sample, duplicates dropped), then quotient, peak_number and
\* assay_number for every row
peak_position_area_dataframe(params, frames, q, assay_number) ==
    [i \in 1..Len(frames) |->
        [peak_name |-> i, peaks_index |-> frames[i].peaks_index,
         area |-> params[i].amplitude, quotient |-> q,
         peak_number |-> Len(frames),
         assay_number |-> assay_number_column(assay_number)]]

\* fit_assay_peaks: fit_lmfit_model, calculate_quotient and
\* peak_position_area_dataframe in a row; the attributes it leaves behind and
\* the exception that ended it
fit_assay_peaks(peak_finding_model, assay_number) ==
    LET e == fit_lmfit_model_error(peak_finding_model, assay_number, number_of_assays)
        assay_frames == divided_peaks[assay_number + 1]
        fd == lmfit_fit_df(assay_frames, peak_finding_model)
        fp == lmfit_fit_params(assay_frames)
        fr == lmfit_fit_report(assay_frames, peak_finding_model)
        q == calculate_quotient(fp, fd, cutoff)
    IN  IF e # "none"
        THEN [err |-> e, fit_df |-> fit_df, fit_params |-> fit_params,
              fit_report |-> fit_report, quotient |-> quotient,
              assay_peak_area_df |-> assay_peak_area_df]
        ELSE IF ~r_value_found(r_squared)
        THEN [err |-> "IndexError", fit_df |-> fd, fit_params |-> fp,   \* findall(...)[0]
              fit_report |-> fr, quotient |-> q,
              assay_peak_area_df |-> assay_peak_area_df]
        ELSE [err |-> "none", fit_df |-> fd, fit_params |-> fp, fit_report |-> fr,
              quotient |-> q,
              assay_peak_area_df |-> peak_position_area_dataframe(fp, fd, q, assay_number)]

\* fit_assay_peaks(peak_finding_model, assay_number)
FitAssayPeaks ==
    /\ pc = "pf_done" /\ cls = "PeakAreaDeMultiplex"
    /\ \E peak_finding_model \in PeakFindingModels \cup {"other"},
          assay_number \in 0..MaxAssayNumber :
          LET r == fit_assay_peaks(peak_finding_model, assay_number)
          IN  /\ err' = r.err
              /\ fit_df' = r.fit_df /\ fit_params' = r.fit_params
              /\ fit_report' = r.fit_report /\ quotient' = r.quotient
              /\ assay_peak_area_df' = r.assay_peak_area_df
              /\ call' = [method |-> "fit_assay_peaks",
                          peak_finding_model |-> peak_finding_model,
                          assay_number |-> assay_number,
                          fitted |-> IF fit_lmfit_model_error(peak_finding_model,
                                            assay_number, number_of_assays) = "none"
                                     THEN Len(r.fit_df) ELSE 0]
    /\ UNCHANGED <<pc, divided_peaks, quantInputs, r_squared, assays_dfs, current>>
    /\ UNCHANGED <<assignerVars, fitVars, finderVars, peaks_obj, windowVars, fsaVars,
                   batchVars>>

NextQuotient == RunValidation \/ FindPeaks \/ FoundPeaks \/ FitLmfitModel \/ CalculateQuotient

\* the three methods a caller can use on a constructed PeakAreaDeMultiplex
NextCalls == NextQuotient \/ FitAssayPeaks

SpecCalls == InitQuotient /\ [][NextCalls]_vars

\* assays_dataframe(peak_finding_model), up to the loop: iter(self)
AssaysDataframe ==
    /\ pc = "pf_done" /\ cls = "PeakAreaDeMultiplex"
    /\ \E peak_finding_model \in PeakFindingModels \cup {"other"} :
          call' = [method |-> "assays_dataframe", peak_finding_model |-> peak_finding_model,
                   assay_number |-> 0, fitted |-> 0]
    /\ IF number_of_assays = -1
       THEN /\ err' = "AttributeError"              \* __iter__: self.number_of_assays
            /\ pc' = "assays_failed"
       ELSE /\ err' = "none"
            /\ pc' = "assays_loop"
    /\ assays_dfs' = <<>>
    /\ current' = 0
    /\ UNCHANGED <<fitResults, quotient, divided_peaks, quantInputs, r_squared,
                   assay_peak_area_df>>
    /\ UNCHANGED <<assignerVars, fitVars, finderVars, peaks_obj, windowVars, fsaVars,
                   batchVars>>

\* one round of `for i in self`: __next__ and the loop body, or StopIteration
\* and the return of pd.concat(dfs, ignore_index=True)
AssaysDataframeNext ==
    /\ pc = "assays_loop"
    /\ IF current >= number_of_assays
       THEN /\ pc' = "assays_done"
            /\ UNCHANGED <<err, fitResults, quotient, assay_peak_area_df, assays_dfs,
                           current>>
       ELSE LET r == fit_assay_peaks(call.peak_finding_model, current)
            IN  /\ current' = current + 1
                /\ err' = r.err
                /\ fit_df' = r.fit_df /\ fit_params' = r.fit_params
                /\ fit_report' = r.fit_report /\ quotient' = r.quotient
                /\ assay_peak_area_df' = r.assay_peak_area_df
                /\ IF r.err = "none"
                   THEN /\ assays_dfs' = Append(assays_dfs, r.assay_peak_area_df)
                        /\ pc' = "assays_loop"
                   ELSE /\ pc' = "assays_failed"
                        /\ UNCHANGED assays_dfs
    /\ UNCHANGED <<call, divided_peaks, quantInputs, r_squared>>
    /\ UNCHANGED <<assignerVars, fitVars, finderVars, peaks_obj, windowVars, fsaVars,
                   batchVars>>

\* a PeakAreaDeMultiplex whose assays_dataframe is called
InitAssays ==
    /\ QuantSample /\ r_squared \in RSquared /\ AssayUnset
    /\ PeaksIdle /\ WindowIdle /\ FsaIdle /\ BatchIdle

NextAssays ==
    RunValidation \/ FindPeaks \/ FoundPeaks \/ AssaysDataframe \/ AssaysDataframeNext

SpecAssays == InitAssays /\ [][NextAssays]_vars

SpecQuotient == InitQuotient /\ [][NextQuotient]_vars

\* ---------------------------------------------------------------------------
\* PeakAreaDeMultiplex: find_peak_widths and divide_peaks
\* ---------------------------------------------------------------------------

MaxTraceLength == 12    \* self.peaks_dataframe has 3..MaxTraceLength rows

padding == 4

\* a slice bound of Python clipped to a sequence of n rows: a negative bound
\* counts from the end
slice_bound(b, n) ==
    IF b < 0 THEN (IF n + b < 0 THEN 0 ELSE n + b)
    ELSE (IF b > n THEN n ELSE b)

\* df.iloc[lo : hi]: the positions (from 0) of the selected rows, in order
iloc_slice(lo, hi, n) ==
    LET a == slice_bound(lo, n)
        b == slice_bound(hi, n)
    IN  [i \in 1..(IF b > a THEN b - a ELSE 0) |-> a + i - 1]

\* divide_peaks: one window per peak of the assay
divide_peaks_windows(assay, n) ==
    [k \in 1..Len(assay) |->
        iloc_slice(assay[k].peak_start - padding, assay[k].peak_end + padding, n)]

\* find_peak_widths: scipy's peak_widths at rel_height 0.95 puts the left
\* crossing before the peak and the right crossing after it; peak_start is
\* its floor, peak_end its ceiling
PeakWidths(n) ==
    {<<[peaks_index |-> t[1], peak_start |-> t[2], peak_end |-> t[3]]>> :
        t \in {u \in (1..(n - 2)) \X (0..(n - 2)) \X (1..(n - 1)) :
                  u[2] < u[1] /\ u[1] < u[3]}}

InitWindows ==
    /\ pc = "find_peak_widths"
    /\ err = "none"
    /\ AssignerIdle /\ FitIdle /\ FinderIdle /\ AssayIdle /\ PeaksIdle /\ FsaIdle
    /\ BatchIdle
    /\ trace_length \in 3..MaxTraceLength
    /\ peak_widths \in PeakWidths(trace_length)
    /\ peak_windows = <<>>

\* self.divided_peaks = [self.divide_peaks(x) for x in self.divided_assays]
DividePeaks ==
    /\ pc = "find_peak_widths"
    /\ peak_windows' = divide_peaks_windows(peak_widths, trace_length)
    /\ pc' = "divide_peaks"
    /\ UNCHANGED <<err, trace_length, peak_widths, assayVars, peaks_obj, fsaVars, batchVars>>
    /\ UNCHANGED <<assignerVars, fitVars, finderVars, quantVars>>

SpecWindows == InitWindows /\ [][DividePeaks]_vars

(***************************************************************************)
(* The callers of the pipeline: make_fraggler_peak / make_fraggler_area    *)
(* (utils/fraggler_object.py), the loops of area_report and peak_report    *)
(* (cli.py) and of generate_peak_table (functions/generate_peak_table.py). *)
(* A file stands for what the components make of it: whether SeqIO.read    *)
(* reads it, the exception of the ladder fit, the exception of the peak    *)
(* search and whether peaks are found.  The ladder name and the table of   *)
(* custom peaks are arguments of the whole batch.  A file's stem is its    *)
(* position in the list.                                                   *)
(***************************************************************************)
MaxFiles == 2           \* at most MaxFiles files in a batch

Samples ==
    {[file |-> "missing", ladder_fit |-> "none", peak_finder |-> "none",
      found_peaks |-> FALSE]}
    \cup {[file |-> "abi", ladder_fit |-> e, peak_finder |-> "none", found_peaks |-> FALSE] :
            e \in {"ValueError", "ModelFittingError"}}
    \cup {[file |-> "abi", ladder_fit |-> "none", peak_finder |-> "SystemExit",
           found_peaks |-> FALSE]}
    \cup {[file |-> "abi", ladder_fit |-> "none", peak_finder |-> "none", found_peaks |-> b] :
            b \in BOOLEAN}

RECURSIVE FileLists(_)
\* the lists of one to n files
FileLists(n) ==
    IF n = 0 THEN {}
    ELSE {<<f>> : f \in Samples}
         \cup FileLists(n - 1)
         \cup {Append(l, f) : l \in FileLists(n - 1), f \in Samples}

\* the arguments of FsaFile(file, ladder, ...): none of the settings decides
\* whether the construction succeeds
caller_fsa_args(sample, name) ==
    [file |-> sample.file, ladder |-> name, size_standard_channel |-> NoChannel,
     min_interpeak_distance |-> NotGiven, min_height |-> NotGiven,
     max_ladder_trace_distance |-> NotGiven]

\* FsaFile, PeakLadderAssigner, FitLadderModel and PeakFinder in turn: the
\* first exception, "none" when all four are constructed
pipeline_error(sample, cfg) ==
    LET e == fsa_file_error(caller_fsa_args(sample, cfg.ladder))
    IN  IF e # "none" THEN e
        ELSE IF sample.ladder_fit # "none" THEN sample.ladder_fit
        ELSE IF cfg.custom_peaks # "none" THEN cfg.custom_peaks     \* run_validation
        ELSE sample.peak_finder

\* `except Exception` catches every exception but SystemExit
is_exception(e) == e \notin {"none", "SystemExit"}

\* PeakAreaDeMultiplex(peaks, cutoff): the PeakFinder is taken for the model,
\* and a PeakFinder has no attribute adjusted_baisepair_df
multiplex_error == "AttributeError"

\* the outcome of the try block: return the object, return file.stem from
\* the handler, or let SystemExit pass
try_except(e, stem, class) ==
    IF e = "none"
    THEN [returned |-> class, value |-> stem, raised |-> "none", logged |-> "none"]
    ELSE IF is_exception(e)
    THEN [returned |-> "str", value |-> stem, raised |-> "none", logged |-> e]
    ELSE [returned |-> "", value |-> 0, raised |-> e, logged |-> "none"]

make_fraggler_peak(stem, sample, cfg) ==
    try_except(pipeline_error(sample, cfg), stem, "FragglerPeak")

make_fraggler_area(stem, sample, cfg) ==
    LET e == pipeline_error(sample, cfg)
    IN  try_except(IF e = "none" THEN multiplex_error ELSE e, stem, "FragglerArea")

InitBatch ==
    /\ pc = "batch_loop"
    /\ err = "none"
    /\ AssignerIdle /\ FitIdle /\ FinderIdle /\ AssayIdle /\ PeaksIdle /\ WindowIdle
    /\ FsaIdle
    /\ batch \in [runner : {"area_report", "peak_report", "generate_peak_table"},
                  ladder : {"LIZ", "WRONG"},
                  custom_peaks : {"none", "OverlappingIntervalError", "WrongColumnsError"},
                  files : FileLists(MaxFiles)]
    /\ LoopStart

\* the next round of the loop, or the statements after the last round
Continue(i) ==
    /\ file_index' = i
    /\ pc' = IF i = Len(batch.files) THEN "batch_done" ELSE "batch_loop"
    /\ err' = "none"

\* an exception leaves the loop
Abort(e) ==
    /\ pc' = "batch_aborted"
    /\ err' = e
    /\ UNCHANGED file_index

\* the body of the loop of area_report and peak_report, from the test of
\* fraggler_object on
ReportRound(obj) ==
    LET i == file_index + 1
        sample == batch.files[i]
        \* fsa = fraggler.FsaFile(file, ladder)
        again == fsa_file_error(caller_fsa_args(sample, batch.ladder))
    IN  /\ fraggler_object' = obj
        /\ IF obj.raised # "none"
           THEN /\ Abort(obj.raised)
                /\ UNCHANGED <<failed_files, no_peaks_files, peak_dfs>>
           ELSE IF obj.returned = "str"
           THEN /\ failed_files' = Append(failed_files, obj.value)
                /\ IF again # "none" THEN Abort(again) ELSE Continue(i)
                /\ UNCHANGED <<no_peaks_files, peak_dfs>>
           ELSE IF ~sample.found_peaks
           THEN /\ no_peaks_files' = Append(no_peaks_files, i)
                /\ IF again # "none" THEN Abort(again) ELSE Continue(i)
                /\ UNCHANGED <<failed_files, peak_dfs>>
           ELSE /\ peak_dfs' = Append(peak_dfs, i)
                /\ Continue(i)
                /\ UNCHANGED <<failed_files, no_peaks_files>>
        /\ UNCHANGED <<batch, fsa, printed>>
        /\ UNCHANGED <<steps, assignerVars, fitVars, finderInputs, peak_information,
                       peaks_index, found_peaks, number_of_assays, quantVars>>
        /\ UNCHANGED <<assayVars, peaks_obj, windowVars, fsaVars>>

\* one round of the loop of area_report
AreaReportRound ==
    /\ pc = "batch_loop"
    /\ batch.runner = "area_report"
    /\ file_index < Len(batch.files)
    /\ ReportRound(make_fraggler_area(file_index + 1, batch.files[file_index + 1], batch))

\* one round of the loop of peak_report
PeakReportRound ==
    /\ pc = "batch_loop"
    /\ batch.runner = "peak_report"
    /\ file_index < Len(batch.files)
    /\ ReportRound(make_fraggler_peak(file_index + 1, batch.files[file_index + 1], batch))

\* one round of the loop of generate_peak_table; after the last round
\* pd.concat(peak_dfs), which raises ValueError on an empty list
GeneratePeakTableRound ==
    /\ pc = "batch_loop"
    /\ batch.runner = "generate_peak_table"
    /\ file_index < Len(batch.files)
    /\ LET i == file_index + 1
           sample == batch.files[i]
           bound == IF fsa_file_error(caller_fsa_args(sample, batch.ladder)) = "none"
                    THEN i ELSE fsa
           e == pipeline_error(sample, batch)
           \* pam.assays_dataframe(peak_model): __iter__ reads self.number_of_assays
           raised == IF e # "none" THEN e
                     ELSE IF ~sample.found_peaks THEN "AttributeError" ELSE "none"
           dfs == IF raised = "none" THEN Append(peak_dfs, i) ELSE peak_dfs
       IN  /\ fsa' = bound
           /\ peak_dfs' = dfs
           /\ IF raised # "none" /\ bound = 0
              THEN /\ Abort("UnboundLocalError")              \* fsa.file_name
                   /\ UNCHANGED printed
              ELSE /\ printed' = IF raised = "none" THEN printed ELSE Append(printed, bound)
                   /\ file_index' = i
                   /\ pc' = IF i < Len(batch.files) THEN "batch_loop"
                            ELSE IF dfs = <<>> THEN "batch_raised" ELSE "batch_done"
                   /\ err' = IF i = Len(batch.files) /\ dfs = <<>> THEN "ValueError"
                             ELSE "none"
    /\ UNCHANGED <<batch, fraggler_object, failed_files, no_peaks_files>>
    /\ UNCHANGED <<steps, assignerVars, fitVars, finderInputs, peak_information,
                   peaks_index, found_peaks, number_of_assays, quantVars>>
    /\ UNCHANGED <<assayVars, peaks_obj, windowVars, fsaVars>>

NextBatch == AreaReportRound \/ PeakReportRound \/ GeneratePeakTableRound

SpecBatch == InitBatch /\ [][NextBatch]_vars

\* ---------------------------------------------------------------------------
\* Properties of PeakFinder / PeakAreaDeMultiplex construction
\* ---------------------------------------------------------------------------

\* find_peaks has assigned self.peak_information
Assigned(info) == ~(Len(info) = 1 /\ info[1].peaks_index = -1)

Called(method) == \E k \in 1..Len(steps) : steps[k] = method

WidthSteps == {"find_peak_widths", "divide_peak_assays", "divide_peaks"}

C7_Flag ==
    /\ found_peaks = "False" =>
          /\ Assigned(peak_information) /\ Len(peak_information) = 0
          /\ pc = "pf_done" /\ err = "none"
          /\ \A m \in WidthSteps : ~Called(m)
          /\ number_of_assays = -1
    /\ found_peaks = "True" =>
          /\ Assigned(peak_information) /\ Len(peak_information) > 0
    /\ pc = "pf_done" => found_peaks \in {"True", "False"}
    /\ pc # "pf_done" => found_peaks = "method"

C7_Step ==
    (pc = "pf_detected" /\ Len(peak_information) = 0)
        => (pc' = "pf_done" /\ found_peaks' = "False" /\ err' = "none" /\ steps' = Append(steps, "found_peaks"))

\* C7: once filtering has produced peak_information, found_peaks is False
\* exactly when it has zero rows; then the construction completes without an
\* exception and find_peak_widths, divide_peak_assays and divide_peaks are not
\* executed; with at least one row the flag is True.
C7_FoundPeaksFlag == [] C7_Flag /\ [][C7_Step]_vars

C7_Witness ==
    /\ cls = "PeakAreaDeMultiplex" /\ pc = "pf_done" /\ found_peaks = "False"
    /\ Len(detected) > 0 /\ err = "none"

\* C8: a PeakFinder given a table whose column set is not the required one
\* fails with WrongColumnsError, whichever column is missing or extra, and
\* has_columns is True only for the required set.
C8_WrongColumnsError ==
    custom_peaks.given =>
        /\ has_columns("PeakFinder", custom_peaks) <=> custom_peaks.columns = RequiredColumns
        /\ (cls = "PeakFinder" /\ custom_peaks.columns # RequiredColumns /\ Called("run_validation"))
              => (pc = "pf_failed" /\ err = "WrongColumnsError")

\* two different rows whose [start, stop) share an integer
Overlapping(rows) ==
    \E i, j \in 1..Len(rows) :
        /\ i # j
        /\ range(rows[i].start, rows[i].stop) \cap range(rows[j].start, rows[j].stop) # {}

\* C9: is_overlapping is True exactly when two different rows' [start, stop)
\* share an integer and False otherwise, touching and empty windows not
\* counting; PeakFinder raises OverlappingIntervalError exactly when it is True.
C9_IsOverlapping ==
    (cls = "PeakFinder" /\ custom_peaks.given /\ {"start", "stop"} \subseteq custom_peaks.columns) =>
        /\ is_overlapping(cls, custom_peaks)
              = (IF Overlapping(custom_peaks.rows) THEN "True" ELSE "False")
        /\ Called("run_validation") =>
              (err = "OverlappingIntervalError" <=> Overlapping(custom_peaks.rows))

\* a table with a wrong column set, or with overlapping windows
InvalidTable ==
    /\ custom_peaks.given
    /\ \/ custom_peaks.columns # RequiredColumns
       \/ Overlapping(custom_peaks.rows)

\* C10: when the table of a PeakFinder has a wrong column set or overlapping
\* windows, validation raises an error, find_peaks is never called, and
\* peak_information, peaks_index and the found_peaks flag are never set.
C10_ValidationBeforeDetection ==
    (cls = "PeakFinder" /\ InvalidTable) =>
        /\ pc \in {"pf_new", "pf_failed"}
        /\ pc = "pf_failed" => (err # "none" /\ steps = <<"run_validation">>)
        /\ ~Called("find_peaks") /\ ~Called("found_peaks")
        /\ ~Assigned(peak_information)
        /\ peaks_index = NoPeaksIndex
        /\ found_peaks = "method"

C10_Witness ==
    /\ cls = "PeakFinder" /\ InvalidTable /\ pc = "pf_failed"
    /\ custom_peaks.columns # RequiredColumns /\ Len(detected) > 0


\* ---------------------------------------------------------------------------
\* Properties of the quantification
\* ---------------------------------------------------------------------------

\* calculate_quotient has just assigned the quotient of the fitted assay
QuotientOf(n) ==
    /\ call.method = "calculate_quotient" /\ err = "none"
    /\ Len(fit_params) = n

\* C11: for an assay with exactly one fitted peak calculate_quotient sets the
\* quotient to exactly 0, whatever the amplitude and the cutoff.
C11_OnePeakQuotientZero ==
    QuotientOf(1) => quotient = rat(0, 1)

C11_Witness ==
    /\ QuotientOf(1) /\ cutoff.set /\ fit_params[1].amplitude > 1
    /\ quotient = rat(0, 1)

\* the mean basepair position of the fitted assay lies below the cutoff
BelowCutoff ==
    /\ cutoff.set
    /\ SumSeq(concat_basepairs(fit_df)) < cutoff.value * Len(concat_basepairs(fit_df))

\* C12: for an assay with exactly two fitted peaks of amplitudes a0 and a1 the
\* quotient is a0/a1 when a cutoff is set and the assay's mean basepair
\* position is below it, and a1/a0 otherwise; 100 and 50 without a cutoff
\* give 0.5.
C12_TwoPeakQuotient ==
    /\ QuotientOf(2) =>
          LET a0 == fit_params[1].amplitude
              a1 == fit_params[2].amplitude
          IN  IF BelowCutoff THEN rat_eq(quotient, rat(a0, a1))
              ELSE rat_eq(quotient, rat(a1, a0))
    /\ rat_eq(calculate_quotient(<<[amplitude |-> 100], [amplitude |-> 50]>>,
                                 <<[basepairs |-> <<1>>], [basepairs |-> <<2>>]>>,
                                 NoCutoff),
              rat(1, 2))

C12_Witness ==
    /\ QuotientOf(2) /\ BelowCutoff
    /\ fit_params[1].amplitude > fit_params[2].amplitude
    /\ rat_eq(quotient, rat(fit_params[1].amplitude, fit_params[2].amplitude))

\* C13: for an assay with more than two fitted peaks the quotient is the last
\* amplitude divided by the arithmetic mean of the other amplitudes, whatever
\* the cutoff; the amplitudes 10, 20, 15, 60 give 4.
C13_ManyPeakQuotient ==
    /\ (call.method = "calculate_quotient" /\ err = "none" /\ Len(fit_params) > 2) =>
          LET n == Len(fit_params)
              others == SumSeq([i \in 1..(n - 1) |-> fit_params[i].amplitude])
          IN  /\ quotient.den # 0
              \* quotient = last / (others / (n - 1))
              /\ quotient.num * others = fit_params[n].amplitude * (n - 1) * quotient.den
    /\ rat_eq(quotient_of_many(<<10, 20, 15, 60>>), rat(4, 1))

C13_Witness ==
    /\ QuotientOf(MaxFitPeaks) /\ cutoff.set
    /\ fit_params[MaxFitPeaks].amplitude # fit_params[1].amplitude

\* a call of fit_lmfit_model with an assay number that is out of range
OutOfRange(c, n) == c.method = "fit_lmfit_model" /\ n # -1 /\ c.assay_number >= n

C20_Raised == OutOfRange(call, number_of_assays) => (err = "IndexError" /\ call.fitted = 0)

C20_Call ==
    OutOfRange(call', number_of_assays) =>
        /\ err' = "IndexError" /\ call'.fitted = 0
        /\ fit_df' = fit_df /\ fit_params' = fit_params /\ fit_report' = fit_report
        /\ quotient' = quotient

\* C20: fit_lmfit_model with an assay number >= number_of_assays raises
\* IndexError before any curve is fitted and leaves fit_df, fit_params,
\* fit_report and quotient as they were.
C20_IndexErrorLeavesFits == [] C20_Raised /\ [][C20_Call]_vars

C20_Witness ==
    /\ OutOfRange(call, number_of_assays) /\ err = "IndexError"
    /\ fit_params # NoFitParams /\ quotient # NoQuotient

\* ---------------------------------------------------------------------------
\* Properties of get_peaks
\* ---------------------------------------------------------------------------

\* the time indices find_peaks detected, and the row of each of them
DetectedTimes == {peaks_obj[i].peaks : i \in 1..Len(peaks_obj)}

RowAt(t) == (CHOOSE i \in 1..Len(peaks_obj) : peaks_obj[i].peaks = t)

KeptTimes == {peaks[i] : i \in 1..Len(peaks)}

\* C27: get_peaks returns at most ref_count + 3 time indices, strictly
\* increasing, the tallest of the detected peaks: with more than ref_count + 3
\* detected exactly ref_count + 3 are kept and no dropped peak is taller than
\* a kept one; with fewer detected all are kept.
C27_GetPeaks ==
    pc = "get_peaks" =>
        /\ Len(peaks) <= ref_count + 3
        /\ StrictlyIncreasing(peaks)
        /\ KeptTimes \subseteq DetectedTimes
        /\ Len(peaks_obj) > ref_count + 3 => Len(peaks) = ref_count + 3
        /\ Len(peaks_obj) <= ref_count + 3 => KeptTimes = DetectedTimes
        /\ \A d \in DetectedTimes \ KeptTimes, k \in KeptTimes :
              peaks_obj[RowAt(d)].heights <= peaks_obj[RowAt(k)].heights

C27_Witness ==
    /\ pc = "get_peaks" /\ Len(peaks_obj) > ref_count + 3
    /\ Len(peaks) = ref_count + 3
    /\ \E d \in DetectedTimes \ KeptTimes, k \in KeptTimes :
          d < k /\ peaks_obj[RowAt(d)].heights < peaks_obj[RowAt(k)].heights

\* ---------------------------------------------------------------------------
\* Properties of the data windows
\* ---------------------------------------------------------------------------

\* C29: the window of every peak is the range of rows from peak_start - 4 to
\* peak_end + 4, cut off at the ends of the table; it is not empty and holds
\* the row of the peak, also when peak_start is less than 4.
C29_WindowHoldsPeak ==
    pc = "divide_peaks" =>
        \A k \in 1..Len(peak_widths) :
            LET w == peak_windows[k]
                lo == IF peak_widths[k].peak_start - padding < 0 THEN 0
                      ELSE peak_widths[k].peak_start - padding
                hi == IF peak_widths[k].peak_end + padding > trace_length
                      THEN trace_length
                      ELSE peak_widths[k].peak_end + padding
            IN  /\ Len(w) > 0
                /\ InSeq(peak_widths[k].peaks_index, w)
                /\ w = [i \in 1..(hi - lo) |-> lo + i - 1]

\* a call of fit_lmfit_model on a sample with peaks, with an assay number
\* that is in range
InRange(c, n) == c.method = "fit_lmfit_model" /\ n # -1 /\ c.assay_number < n

Unsupported(c) == c.peak_finding_model \notin {"gauss", "voigt", "lorentzian"}

C21_Raised ==
    /\ InRange(call, number_of_assays) =>
          /\ Unsupported(call) <=> err = "NotImplementedError"
          /\ Unsupported(call) => call.fitted = 0
    /\ (call.method = "fit_lmfit_model" /\ ~Unsupported(call)) =>
          err # "NotImplementedError"

C21_Call ==
    (InRange(call', number_of_assays) /\ Unsupported(call')) =>
        /\ fit_df' = fit_df /\ fit_params' = fit_params /\ fit_report' = fit_report
        /\ quotient' = quotient

\* C21 (as amended): fit_lmfit_model called with an assay number in range and
\* a peak-shape-model name other than gauss, voigt or lorentzian raises
\* NotImplementedError, fits nothing and leaves fit_df, fit_params, fit_report
\* and quotient as they were; the three supported names never raise
\* NotImplementedError.
C21_UnsupportedModelInRange == [] C21_Raised /\ [][C21_Call]_vars

C21_Witness ==
    /\ InRange(call, number_of_assays) /\ Unsupported(call)
    /\ err = "NotImplementedError"
    /\ fit_params # NoFitParams /\ quotient # NoQuotient

\* C21 as stated: every call with an unsupported name, whatever the assay
\* number, raises NotImplementedError.
C21_UnsupportedModelAnyCall ==
    (call.method = "fit_lmfit_model" /\ Unsupported(call)) => err = "NotImplementedError"

\* C26: after any sequence of calls of fit_lmfit_model, calculate_quotient and
\* fit_assay_peaks, a stored quotient is the quotient of the stored fit_params
\* (it is never left over from the fit of another assay or model).
C26_QuotientFollowsFit ==
    (quotient # NoQuotient /\ fit_params # NoFitParams) =>
        quotient = calculate_quotient(fit_params, fit_df, cutoff)

\* the peaks of the assay with index a (from 0), as found_peaks divided them
AssayPeaks(a) == divided_peaks[a + 1]

\* the frame assays_dataframe collected for the assay with index a
AssayFrame(a) == assays_dfs[a + 1]

\* C30: assays_dataframe fits the assay indices 0 .. number_of_assays - 1
\* once each, in increasing order, and emits one row per quantified peak; the
\* rows of an assay carry the quotient of that assay's own fit, peak_number =
\* the number of peaks of the assay and assay_number = the index plus one.
C30_AssaysDataframe ==
    (pc \in {"assays_loop", "assays_done"}) =>
        /\ Len(assays_dfs) = current
        /\ current <= number_of_assays
        /\ pc = "assays_done" => current = number_of_assays
        /\ \A a \in 0..(current - 1) :
              /\ Len(AssayFrame(a)) = Len(AssayPeaks(a))
              /\ \A i \in 1..Len(AssayFrame(a)) :
                    LET row == AssayFrame(a)[i]
                    IN  /\ row.peaks_index = AssayPeaks(a)[i].peaks_index
                        /\ row.area = trace_area[row.peaks_index]
                        /\ row.peak_number = Len(AssayPeaks(a))
                        /\ row.assay_number = a + 1
                        /\ row.quotient =
                              calculate_quotient(
                                  lmfit_fit_params(AssayPeaks(a)),
                                  lmfit_fit_df(AssayPeaks(a), call.peak_finding_model),
                                  cutoff)

C30_Witness ==
    /\ pc = "assays_done" /\ number_of_assays = 2
    /\ Len(assays_dfs) = 2 /\ Len(assays_dfs[1]) >= 2 /\ Len(assays_dfs[2]) = 1
    /\ assays_dfs[1][1].quotient # assays_dfs[2][1].quotient
    /\ Len(assays_dfs[1]) + Len(assays_dfs[2]) = Len(peak_information)


\* ---------------------------------------------------------------------------
\* Properties of FsaFile.__init__
\* ---------------------------------------------------------------------------

\* the fixed reference set of ladders
ReferenceLadders == {"LIZ", "ROX", "ORANGE"}

\* C22: FsaFile(...) with a ladder name outside the reference set has raised
\* LadderNotFoundError with the message '<name>' is not a valid ladder, nothing
\* but __init__ has run (the file was not read, nothing was tried again) and
\* no object exists; an object that exists has a ladder of the reference set.
C22_UnknownLadder ==
    /\ (pc # "fsa_new" /\ fsa_args.ladder \notin ReferenceLadders) =>
            /\ pc = "fsa_failed"
            /\ err = "LadderNotFoundError"
            /\ message = "'" \o fsa_args.ladder \o "' is not a valid ladder"
            /\ steps = <<"FsaFile.__init__">>
            /\ fsa_file = NoFsaFile
    /\ fsa_file # NoFsaFile => fsa_file.ladder \in ReferenceLadders

C22_Witness ==
    /\ pc = "fsa_failed" /\ err = "LadderNotFoundError"
    /\ fsa_args.ladder = "WRONG" /\ fsa_args.file = "abi"
    /\ message = "'WRONG' is not a valid ladder"

\* the value the caller supplied, the ladder's default when nothing was supplied
Supplied(arg, default) == IF arg.given THEN arg.value ELSE default

\* C25: the constructed FsaFile holds, for each of the four settings, the
\* value the caller supplied (0 included) and the ladder's default only when
\* the caller supplied nothing.
C25_CallerValuesUsed ==
    pc = "fsa_done" =>
        LET defaults == LADDERS[fsa_args.ladder]
        IN  /\ fsa_file.min_height = Supplied(fsa_args.min_height, defaults.height)
            /\ fsa_file.min_interpeak_distance =
                   Supplied(fsa_args.min_interpeak_distance, defaults.distance)
            /\ fsa_file.max_ladder_trace_distance =
                   Supplied(fsa_args.max_ladder_trace_distance,
                            defaults.max_ladder_trace_distance)
            /\ fsa_file.size_standard_channel =
                   Supplied(fsa_args.size_standard_channel, defaults.channel)

\* ---------------------------------------------------------------------------
\* Properties of the callers
\* ---------------------------------------------------------------------------

\* the file of the latest call of make_fraggler_peak / make_fraggler_area
CalledFile == IF pc = "batch_aborted" THEN file_index + 1 ELSE file_index

\* C24: an error a component detects on a file reaches the caller of
\* make_fraggler_peak / make_fraggler_area as that exception: the call
\* returns nothing in its place, and no component exits the process.
C24_ErrorsReachCaller ==
    fraggler_object # NoObject =>
        LET e == pipeline_error(batch.files[CalledFile], batch)
        IN  /\ e # "none" => (fraggler_object.raised = e /\ fraggler_object.returned = "")
            /\ fraggler_object.raised # "SystemExit"

\* the file at position i of the batch fails
FailedFile(i) == pipeline_error(batch.files[i], batch) # "none"

\* the file at position i is reported as failed
RecordedFile(i) ==
    IF batch.runner = "generate_peak_table"
    THEN \E k \in 1..Len(printed) : printed[k] = i
    ELSE \E k \in 1..Len(failed_files) : failed_files[k] = i

\* C23: a batch run ends only when the loop is through with every file, and
\* every failed file the loop is through with is recorded as failed.
C23_BatchContinues ==
    /\ pc \in {"batch_done", "batch_raised", "batch_aborted"} =>
           file_index = Len(batch.files)
    /\ \A i \in 1..file_index : FailedFile(i) => RecordedFile(i)

\* ---------------------------------------------------------------------------
\* Properties of the peak filters
\* ---------------------------------------------------------------------------

\* find_peaks_customized of a PeakFinder has returned
CustomDone == cls = "PeakFinder" /\ custom_peaks.given /\ Assigned(peak_information)

\* find_peaks_agnostic has returned
AgnosticDone == ~custom_peaks.given /\ Assigned(peak_information)

\* positions in detected of the peaks inside the window of row r
InWindow(r) ==
    {k \in 1..Len(detected) :
        detected[k].basepairs > r.start /\ detected[k].basepairs < r.stop}

Tallest(K) == MaxOf({detected[k].peaks : k \in K})

\* the peaks of the window that pass its min_ratio filter
Passing(r) ==
    {k \in InWindow(r) : detected[k].peaks * 100 > r.min_ratio * Tallest(InWindow(r))}

\* positions in detected of the peaks retained for row r
Retained(r) ==
    {k \in 1..Len(detected) :
        \E j \in 1..Len(peak_information) :
            /\ peak_information[j].peaks_index = detected[k].peaks_index
            /\ peak_information[j].assay = r.name}

Min2(a, b) == IF a <= b THEN a ELSE b

TableRows == {custom_peaks.rows[i] : i \in 1..Len(custom_peaks.rows)}

\* C14: for a window with which = FIRST, amount = k > 0 and peak_distance = 0
\* the retained peaks are exactly the k lowest-basepair peaks among those of
\* the window that pass min_ratio (all of them when fewer than k pass).
C14_FirstKeepsLowestBasepairs ==
    CustomDone =>
        \A r \in TableRows :
            (r.which = "FIRST" /\ r.amount > 0 /\ r.peak_distance = 0) =>
                /\ Retained(r) \subseteq Passing(r)
                /\ Cardinality(Retained(r)) = Min2(r.amount, Cardinality(Passing(r)))
                /\ \A a \in Retained(r), b \in Passing(r) \ Retained(r) :
                      detected[a].basepairs < detected[b].basepairs

C14_Witness ==
    /\ CustomDone /\ pc = "pf_done"
    /\ \E r \in TableRows :
          /\ r.which = "FIRST" /\ r.amount = 1 /\ r.peak_distance = 0
          /\ Cardinality(Passing(r)) >= 2
          /\ \E a \in Retained(r) : a > 1

\* C15: for a window with which = LARGEST, amount = k > 0 and peak_distance = 0
\* exactly min(k, n) of the n peaks that pass min_ratio are retained and no
\* dropped peak is taller than a retained one, equal heights included.
C15_LargestKeepsTopK ==
    CustomDone =>
        \A r \in TableRows :
            (r.which = "LARGEST" /\ r.amount > 0 /\ r.peak_distance = 0) =>
                /\ Retained(r) \subseteq Passing(r)
                /\ Cardinality(Retained(r)) = Min2(r.amount, Cardinality(Passing(r)))
                /\ \A a \in Retained(r), b \in Passing(r) \ Retained(r) :
                      detected[b].peaks <= detected[a].peaks

\* C16: in automatic mode, whatever distance_between_assays, the first
\* detected peak starts an assay, a later peak starts one exactly when its gap
\* to the previous detected peak exceeds distance_between_assays and joins the
\* previous peak's assay otherwise; every detected peak is in exactly one assay.
C16_AssayPartition ==
    AgnosticDone =>
        LET assay == agnostic_assay(detected, distance_between_assays)
            gap(k) == detected[k].basepairs - detected[k - 1].basepairs
        IN  \A k \in 1..Len(detected) :
                /\ assay[k] # 0
                /\ k = 1 => assay[k] = 10
                /\ k > 1 => IF gap(k) > distance_between_assays
                            THEN assay[k] = k * 10
                            ELSE assay[k] = assay[k - 1]
                /\ min_ratio = 0 =>
                      \E j \in 1..Len(peak_information) :
                          /\ peak_information[j].peaks_index = detected[k].peaks_index
                          /\ peak_information[j].assay = assay[k]

\* C17: in automatic mode exactly the peaks lower than min_ratio times the
\* tallest peak of their assay are dropped; a peak at exactly min_ratio times
\* the tallest is kept, and so is the tallest peak of every assay.
C17_RatioFilter ==
    AgnosticDone =>
        LET assay == agnostic_assay(detected, distance_between_assays)
            members(k) == {j \in 1..Len(detected) : assay[j] = assay[k]}
            kept(k) == \E j \in 1..Len(peak_information) :
                          peak_information[j].peaks_index = detected[k].peaks_index
        IN  \A k \in 1..Len(detected) :
                assay[k] # 0 =>
                    (kept(k) <=> ~(detected[k].peaks * 100 < min_ratio * Tallest(members(k))))

\* the rows of peak_information retained for row r, in their order
RetainedRows(r) ==
    loc(peak_information, {j \in 1..Len(peak_information) : peak_information[j].assay = r.name}, 1)

\* C18: for a window with peak_distance > 0, every retained peak after the
\* first lies at most peak_distance after the previous retained peak.
C18_PeakDistance ==
    CustomDone =>
        \A r \in TableRows :
            r.peak_distance > 0 =>
                \A j \in 2..Len(RetainedRows(r)) :
                    RetainedRows(r)[j].basepairs - RetainedRows(r)[j - 1].basepairs
                        <= r.peak_distance

\* C19: no peak retained for a window is lower than min_ratio times the
\* tallest detected peak inside the window, whatever the amount (0 included).
C19_MinRatioEveryWindow ==
    CustomDone =>
        \A r \in TableRows :
            \A k \in Retained(r) :
                ~(detected[k].peaks * 100 < r.min_ratio * Tallest(InWindow(r)))

====
